---- MODULE Spec2Model ----
(***************************************************************************)
(* Model of the AwoX mesh scheduler (custom_components/awox/awox_mesh.py)   *)
(* and of the session object it drives (awoxmeshlight/__init__.py).         *)
(*                                                                         *)
(* Three kinds of control flow exist in the program and are kept apart:     *)
(*   - the event loop, which runs the coroutines (submitters, poll cycle,   *)
(*     shutdown, and the coroutines the worker schedules with               *)
(*     run_coroutine_threadsafe); a coroutine runs atomically between two   *)
(*     suspensions, so one action is one such segment;                      *)
(*   - the command worker thread (_process_command_queue), whose own        *)
(*     statements interleave freely with the event loop;                    *)
(*   - executor jobs (device.connect / disconnect / stop), which have a     *)
(*     start and an end.                                                    *)
(* Time is abstract: a timestamp is "fresh" or "old" with respect to the    *)
(* window the code compares it with, and a timeout may fire whenever the    *)
(* wait it guards is pending.                                               *)
(***************************************************************************)
EXTENDS Integers, Sequences, FiniteSets, TLC

\* ----------------------------------------------------------------- bounds
NumDevices == 2
MaxCommands == 2
NumSessions == 3

\* ------------------------------------------------------ program constants
MAX_TRIES == 3
RSSI_FLOOR == 0 - 9999
RSSI_UNKNOWN == 0 - 999999
RSSI_NO_VALUE == 0 - 99999
ScanRssi == {0 - 40}

MeshIds == 1..NumDevices
SessIds == 1..NumSessions
CmdIds == 1..MaxCommands

VARIABLES
    devices,                \* _devices, in dict (registration) order
    state,                  \* _state
    cbd,                    \* _connected_bluetooth_device (0 = None)
    sessions,               \* the AwoxMeshLight objects alive
    scanning_devices,       \* _scanning_devices
    queue,                  \* _queue
    shutdown,               \* _shutdown
    waiting,                \* submit calls of the host still suspended (by command id)
    done,                   \* the `done` cells that are set and still awaited
    nextId,                 \* commands enqueued so far + 1
    wpc,                    \* worker: position
    command,                \* worker: the dequeued command
    tries,                  \* worker: tries
    cands,                  \* _async_connect_device: what is left of sorted(...)
    device,                 \* _async_connect_device: the candidate session
    wdev,                   \* writeCommand: the session it runs on
    wres,                   \* _call_command: result / failed
    ddev,                   \* _disconnect_current_device: local `device`, per caller
    spc,                    \* async_shutdown: position
    ppc,                    \* _async_update_data: position
    pwait,                  \* _async_update_data: command its submit call awaits
    pidx,                   \* _async_update_data: index in the device loop
    last_update_success,    \* DataUpdateCoordinator.last_update_success
    hist,                   \* observations (history), never read by the program
    obs,                    \* what the hosts' device callbacks and the mesh were
                            \* seen to do (history), never read by the program
    opc,                    \* _async_get_devices_rssi called by an overlapping refresh:
                            \* its position
    shown,                  \* the connected device the listeners read when they were
                            \* last called (history), never read by the program
    codec,                  \* packetutils: the call made and what it returned
    light                   \* an AwoxMeshLight driven on its own: its fields, the
                            \* call it is in and what the calls so far did

vars == <<devices, state, cbd, sessions, scanning_devices, queue, shutdown, waiting,
          done, nextId, wpc, command, tries, cands, device, wdev, wres, ddev, spc,
          ppc, pwait, pidx, last_update_success, hist, obs, opc, shown,
          codec, light>>

NoCommand == [id |-> 0, allow_to_fail |-> FALSE]
NewSession == [link |-> "none", key |-> FALSE, dev |-> 0, status_callback |-> FALSE]

\* what is observed of the command in hand (attempts made, how it ended, callbacks
\* run, candidates tried by the connect call in progress), of the queue (commands
\* dequeued so far) and of the awaited commands (those the worker is through
\* with, those that ran out of retries), and of the session the last poll cycle
\* started with: held for less than two hours or none ("short"), for longer
\* ("long"), and a connect has succeeded since ("renewed"); resend: the connect
\* call in progress opens a retry that follows a failed send
NoHistory == [attempts |-> 0, outcome |-> "none", nDequeued |-> 0, callbacks |-> 0,
              tried |-> <<>>, finished |-> {}, exhausted |-> {}, skipped |-> FALSE,
              held |-> "short", resend |-> FALSE]

\* per device: callbacks made with {'state': None}, callbacks made with a parsed
\* status, and how long ago the mesh last delivered a status frame of the device;
\* whether a submit call, a poll cycle, was turned down because the worker is dead
NoObservation == [nulls |-> [d \in MeshIds |-> 0],
                  forwarded |-> [d \in MeshIds |-> 0],
                  heard |-> [d \in MeshIds |-> "none"],
                  refused |-> FALSE, died |-> FALSE]

\* ------------------------------------------------------------ directory
\* register_device: a new key is appended to the dict, an existing key keeps
\* its place; the record is reset either way.
register_device(devs, d) ==
    LET rec == [mesh_id |-> d, mac |-> TRUE, rssi |-> RSSI_UNKNOWN,
                last_update |-> "none", update_count |-> 0,
                status_request_count |-> 0]
        at == {i \in 1..Len(devs) : devs[i].mesh_id = d}
    IN  IF at # {}
        THEN [i \in 1..Len(devs) |-> IF i \in at THEN rec ELSE devs[i]]
        ELSE Append(devs, rec)

RECURSIVE Registered(_)
Registered(order) ==
    IF order = <<>> THEN <<>>
    ELSE register_device(Registered(SubSeq(order, 1, Len(order) - 1)),
                         order[Len(order)])

DeviceIndex(d) == CHOOSE i \in 1..Len(devices) : devices[i].mesh_id = d

Rssi(d) == devices[DeviceIndex(d)].rssi

\* variant of InsertByRssi: the sort without reverse=True
RECURSIVE InsertAscending(_, _)
InsertAscending(x, s) ==
    IF s = <<>> THEN <<x>>
    ELSE IF Head(s).rssi <= x.rssi
         THEN <<Head(s)>> \o InsertAscending(x, Tail(s))
         ELSE <<x>> \o s

\* sorted(items, key=rssi, reverse=True): stable, so equal keys keep dict order.
RECURSIVE InsertByRssi(_, _)
InsertByRssi(x, s) ==
    IF s = <<>> THEN <<x>>
    ELSE IF Head(s).rssi >= x.rssi
         THEN <<Head(s)>> \o InsertByRssi(x, Tail(s))
         ELSE <<x>> \o s

RECURSIVE SortedByRssi(_)
SortedByRssi(s) ==
    IF s = <<>> THEN <<>>
    ELSE InsertByRssi(s[Len(s)], SortedByRssi(SubSeq(s, 1, Len(s) - 1)))

\* filter(lambda device: device[1]['rssi'] > -9999, ...): evaluated lazily, on
\* the record as it is when the iterator reaches it.
Connectable(d) == Rssi(d) > RSSI_FLOOR

\* line 330: `if device_info['mac'] is None: continue` (mac: TRUE when present)
HasMac(d) == devices[DeviceIndex(d)].mac

\* variant of SkipUnconnectable: the filter of line 363 left out
RECURSIVE SkipNoMac(_)
SkipNoMac(s) ==
    IF s = <<>> THEN <<>>
    ELSE IF HasMac(Head(s).mesh_id) THEN s
         ELSE SkipNoMac(Tail(s))

\* An item of the sorted list holds the dict that was the device's record when
\* the list was made. register_device binds the key to a new dict (line 90): the
\* item then keeps the old one, which nothing writes to any more.
Detached(rec) ==
    [mesh_id |-> rec.mesh_id, mac |-> rec.mac, rssi |-> rec.rssi, detached |-> TRUE]

IsDetached(item) == "detached" \in DOMAIN item

\* the iterator up to the next item the loop body goes through with
RECURSIVE SkipUnconnectable(_)
SkipUnconnectable(s) ==
    IF s = <<>> THEN <<>>
    ELSE IF (IF IsDetached(Head(s))
             THEN Head(s).rssi > RSSI_FLOOR /\ Head(s).mac
             ELSE Connectable(Head(s).mesh_id) /\ HasMac(Head(s).mesh_id)) THEN s
         ELSE SkipUnconnectable(Tail(s))

\* ------------------------------------------------------------- sessions
\* AwoxMeshLight.isconnected is read by the scheduler but defined nowhere in
\* the sources; the Session's invariant makes it "session key present".
isconnected(s) == sessions[s].key

is_connected == cbd # 0 /\ isconnected(cbd)

\* sessions something still refers to, the connect loop's candidate aside
Referenced == {cbd, wdev} \cup {ddev[p] : p \in DOMAIN ddev}

\* a new AwoxMeshLight object: any slot no one refers to
FreeSession == CHOOSE s \in SessIds : s \notin Referenced

OpenLinks == {s \in SessIds : sessions[s].link = "open"}

\* _async_update_mesh_state, given the connection state it runs in
update_mesh_state(st, connected) ==
    IF connected THEN st ELSE [st EXCEPT !.connected_device = 0]

\* the update_callback of every listener runs (lines 181-182) and reads _state
Shown(st) == st.connected_device

\* AwoxMeshLight.disconnect / stop: the transport is released and the key dropped;
\* no frame reaches a released object, its status_callback is of no effect
Released(s) == [sessions EXCEPT ![s] = NewSession]

\* ------------------------------------------------------------------ Init
InitWith(dirs) ==
    /\ devices \in dirs
    /\ state = [last_rssi_check |-> "none", last_connection |-> "none",
                connected_device |-> 0]
    /\ cbd = 0
    /\ sessions = [s \in SessIds |-> NewSession]
    /\ scanning_devices = FALSE
    /\ queue = <<>>
    /\ shutdown = FALSE
    /\ waiting = {}
    /\ done = {}
    /\ nextId = 1
    /\ wpc = "loop"
    /\ command = NoCommand
    /\ tries = 0
    /\ cands = <<>>
    /\ device = 0
    /\ wdev = 0
    /\ wres = "none"
    /\ ddev = [p \in {"worker", "poll", "shutdown"} |-> 0]
    /\ spc = "idle"
    /\ ppc = "idle"
    /\ pwait = 0
    /\ pidx = 0
    /\ last_update_success = TRUE
    /\ hist = NoHistory
    /\ obs = NoObservation
    /\ opc = "idle"
    /\ shown = 0

NoPacket == [stage |-> "idle"]

\* the mesh credentials the scheduler hands every light (line 333)
MeshName == <<109, 101, 115, 104>>
MeshPassword == <<49, 50, 51, 52>>

\* AwoxMeshLight.__init__ (lines 218-239) for a light of mesh id m at address mac,
\* and what is observed of it: the call in progress (pc, caller), the result of
\* the last call, the pairing reply read by the connect call last made, the
\* notification handled during the call in progress and what became of it, the
\* status_callback calls made and the mesh id of the last
NewLight(mac, m) ==
    [mac |-> mac, mesh_id |-> m, link |-> "none", session_key |-> <<>>,
     session_random |-> <<>>, state |-> "None", status_callback |-> FALSE,
     pc |-> "idle", caller |-> "none", result |-> "none", reply |-> <<>>,
     data |-> <<>>, handled |-> "none", delivered |-> 0, last |-> 0,
     calls |-> 0, notified |-> 0]

NoLight == NewLight(<<>>, 0)

Init ==
    /\ InitWith({Registered([i \in 1..NumDevices |-> i])})
    /\ codec = NoPacket
    /\ light = NoLight

\* ------------------------------------------ _async_add_command_to_queue
\* variant of is_alive: the thread is taken to be alive whatever became of it
is_alive_always == TRUE

is_alive == wpc # "exited"

Enqueue(q, cmd) == Append(q, cmd)

\* a host call (async_on, async_off, ...): lines 240-257
Submit ==
    /\ nextId <= MaxCommands
    /\ IF ~is_alive
       THEN \* raise UpdateFailed("Command tread died!"): nothing is enqueued
            /\ obs' = [obs EXCEPT !.refused = TRUE]
            /\ UNCHANGED <<queue, waiting, nextId>>
       ELSE /\ queue' = Enqueue(queue, [id |-> nextId, allow_to_fail |-> FALSE])
            /\ waiting' = waiting \cup {nextId}
            /\ nextId' = nextId + 1
            /\ UNCHANGED obs
    /\ UNCHANGED <<devices, state, cbd, sessions, scanning_devices, shutdown, done,
                   wpc, command, tries, cands, device, wdev, wres, ddev, spc, ppc,
                   pwait, pidx, last_update_success, hist, codec, light, shown, opc>>

\* what _async_add_command_to_queue hands back to its caller once the loop of
\* lines 258-259 ends: the function has no return statement, for any command
SubmitResult(i) == "None"

\* `while not done: await asyncio.sleep(.01)` sees the cell set: lines 258-259
SubmitReturn(i) ==
    /\ i \in waiting
    /\ i \in done
    /\ waiting' = waiting \ {i}
    /\ done' = done \ {i}
    /\ hist' = [hist EXCEPT !.finished = @ \ {i}, !.exhausted = @ \ {i}]
    /\ UNCHANGED <<devices, state, cbd, sessions, scanning_devices, queue, shutdown,
                   nextId, wpc, command, tries, cands, device, wdev, wres, ddev, spc,
                   ppc, pwait, pidx, last_update_success, obs, codec,
                   light, shown, opc>>

\* ------------------------------------------------ _process_command_queue
\* line 262: `while not self._shutdown`; the locals of the turn before are dead
WorkerLoop ==
    /\ wpc = "loop"
    /\ wpc' = IF shutdown THEN "exited" ELSE "get"
    /\ command' = NoCommand
    /\ tries' = 0
    /\ wres' = "none"
    /\ hist' = [hist EXCEPT !.attempts = 0, !.outcome = "none", !.callbacks = 0]
    /\ UNCHANGED <<devices, state, cbd, sessions, scanning_devices, queue, shutdown,
                   waiting, done, nextId, cands, device, wdev, ddev, spc, ppc, pwait,
                   pidx, last_update_success, obs, codec, light, shown, opc>>

\* variant of Dequeue: a stack instead of a queue
DequeueLast(q) == [cmd |-> q[Len(q)], rest |-> SubSeq(q, 1, Len(q) - 1)]

Dequeue(q) == [cmd |-> Head(q), rest |-> Tail(q)]

\* lines 265-268
WorkerGet ==
    /\ wpc = "get"
    /\ queue # <<>>
    /\ command' = Dequeue(queue).cmd
    /\ queue' = Dequeue(queue).rest
    /\ tries' = 0
    /\ wres' = "none"
    /\ wpc' = "call"
    /\ hist' = [hist EXCEPT !.nDequeued = @ + 1]
    /\ UNCHANGED <<devices, state, cbd, sessions, scanning_devices, shutdown, waiting,
                   done, nextId, cands, device, wdev, ddev, spc, ppc, pwait, pidx,
                   last_update_success, obs, codec, light, shown, opc>>

\* variant of RetryAllowed: `tries <= 3`
RetryAllowedOnceMore(t) == t <= MAX_TRIES

\* `while not self._call_command(command) and tries < 3: tries = tries + 1`
RetryAllowed(t) == t < MAX_TRIES

Awaited(i) == i \in waiting \/ i = pwait

\* the worker is through with the command, however it ended
Finish(h, how) ==
    [h EXCEPT !.outcome = how,
              !.resend = FALSE,
              !.finished = IF Awaited(command.id) THEN @ \cup {command.id} ELSE @,
              !.exhausted = IF how = "exhausted" /\ ~command.allow_to_fail
                               /\ Awaited(command.id)
                            THEN @ \cup {command.id} ELSE @]

\* _call_command returned `res`: the loop condition of _process_command_queue
Return(res, h) ==
    IF res
    THEN /\ wpc' = "callback"
         /\ tries' = tries
         /\ hist' = Finish(h, "ok")
    ELSE IF RetryAllowed(tries)
         THEN /\ wpc' = "call"
              /\ tries' = tries + 1
              /\ hist' = h
         ELSE /\ wpc' = "callback"
              /\ tries' = tries
              /\ hist' = Finish(h, "exhausted")

\* the for loop of _async_connect_device from the candidates `list` on, up to
\* the await of the next connect, or through the code after the loop
\* (lines 329-337, 354-359)
NextAttempt(list, sess, h) ==
    LET rest == SkipUnconnectable(list)
    IN  IF rest = <<>>
        THEN /\ cands' = <<>>
             /\ device' = 0
             /\ sessions' = IF cbd # 0
                            THEN [sess EXCEPT ![cbd].status_callback = TRUE]
                            ELSE sess
             /\ wpc' = "check"
             /\ state' = IF cbd # 0 THEN state
                         ELSE update_mesh_state(
                                  [state EXCEPT !.last_rssi_check = "none"],
                                  is_connected)
             /\ shown' = IF cbd # 0 THEN shown ELSE Shown(state')
             /\ hist' = [h EXCEPT !.tried = <<>>]
        ELSE /\ cands' = Tail(rest)
             /\ device' = FreeSession
             /\ sessions' = [sess EXCEPT ![FreeSession] =
                                [link |-> "opening", key |-> FALSE,
                                 dev |-> Head(rest).mesh_id,
                                 status_callback |-> FALSE]]
             /\ wpc' = "connecting"
             /\ state' = state
             /\ shown' = shown
             /\ hist' = [h EXCEPT !.tried = Append(@, Head(rest))]

\* variant of WorkerCall: the candidates are gone through even when connected
WorkerCallReconnects ==
    /\ wpc = "call"
    /\ wres' = "none"
    /\ NextAttempt(SortedByRssi(devices), sessions,
                   [hist EXCEPT !.attempts = @ + 1, !.tried = <<>>])
    /\ UNCHANGED <<devices, cbd, scanning_devices, queue, shutdown, waiting, done,
                   nextId, command, tries, wdev, ddev, spc, ppc, pwait, pidx,
                   last_update_success, obs, codec, light, opc>>

\* _call_command entry: _connect_device runs _async_connect_device on the loop
\* (lines 284-285, 325-337); hist.skipped: it returned at line 327
WorkerCall ==
    /\ wpc = "call"
    /\ wres' = "none"
    /\ IF is_connected
       THEN /\ wpc' = "check"
            /\ hist' = [hist EXCEPT !.attempts = @ + 1, !.tried = <<>>,
                                    !.skipped = TRUE]
            /\ UNCHANGED <<cands, device, sessions, state, shown>>
       ELSE NextAttempt(SortedByRssi(devices), sessions,
                        [hist EXCEPT !.attempts = @ + 1, !.tried = <<>>])
    /\ UNCHANGED <<devices, cbd, scanning_devices, queue, shutdown, waiting, done,
                   nextId, command, tries, wdev, ddev, spc, ppc, pwait, pidx,
                   last_update_success, obs, codec, light, opc>>

\* variant of ConnectOk: the listeners are not called and no status callback is set
ConnectOkUnannounced ==
    /\ wpc = "connecting"
    /\ sessions' = [sessions EXCEPT ![device].key = TRUE, ![device].link = "open"]
    /\ cbd' = device
    /\ device' = 0
    /\ cands' = <<>>
    /\ state' = [state EXCEPT !.connected_device = sessions[device].dev,
                              !.last_connection = "fresh"]
    /\ wpc' = "check"
    /\ hist' = [hist EXCEPT !.tried = <<>>,
                            !.held = IF @ = "long" THEN "renewed" ELSE @]
    /\ UNCHANGED <<devices, scanning_devices, queue, shutdown, waiting, done, nextId,
                   command, tries, wdev, wres, ddev, spc, ppc, pwait, pidx,
                   last_update_success, obs, shown, codec, light, opc>>

\* device.connect returned True: lines 338-343, then 354-355
ConnectOk ==
    /\ wpc = "connecting"
    /\ sessions' = [sessions EXCEPT ![device].key = TRUE, ![device].link = "open",
                                    ![device].status_callback = TRUE]
    /\ cbd' = device
    /\ device' = 0
    /\ cands' = <<>>
    /\ state' = update_mesh_state(
                    [state EXCEPT !.connected_device = sessions[device].dev,
                                  !.last_connection = "fresh"], TRUE)
    /\ shown' = Shown(state')
    /\ wpc' = "check"
    /\ hist' = [hist EXCEPT !.tried = <<>>,
                            !.held = IF @ = "long" THEN "renewed" ELSE @]
    /\ UNCHANGED <<devices, scanning_devices, queue, shutdown, waiting, done, nextId,
                   command, tries, wdev, wres, ddev, spc, ppc, pwait, pidx,
                   last_update_success, obs, codec, light, opc>>

\* variant of ConnectFailed: device.stop (line 352) left out
ConnectFailedKeepsTransport ==
    /\ wpc = "connecting"
    /\ NextAttempt(cands, sessions, hist)
    /\ UNCHANGED <<devices, cbd, scanning_devices, queue, shutdown, waiting, done,
                   nextId, command, tries, wdev, wres, ddev, spc, ppc, pwait, pidx,
                   last_update_success, obs, codec, light, opc>>

\* device.connect returned False, raised, or ran into the 20 s timeout; then
\* device.stop (line 352) and the next turn of the loop
ConnectFailed ==
    /\ wpc = "connecting"
    /\ NextAttempt(cands, Released(device), hist)
    /\ UNCHANGED <<devices, cbd, scanning_devices, queue, shutdown, waiting, done,
                   nextId, command, tries, wdev, wres, ddev, spc, ppc, pwait, pidx,
                   last_update_success, obs, codec, light, opc>>

\* line 286, in the worker thread: `self._connected_bluetooth_device and ...`
\* reads the attribute twice
WorkerCheck ==
    /\ wpc = "check"
    /\ IF cbd = 0
       THEN Return(FALSE, [hist EXCEPT !.skipped = FALSE, !.resend = FALSE])
            /\ UNCHANGED wres
       ELSE /\ wpc' = "check2"
            /\ hist' = [hist EXCEPT !.skipped = FALSE, !.resend = FALSE]
            /\ UNCHANGED <<tries, wres>>
    /\ UNCHANGED <<devices, state, cbd, sessions, scanning_devices, queue, shutdown,
                   waiting, done, nextId, command, cands, device, wdev, ddev, spc,
                   ppc, pwait, pidx, last_update_success, obs, codec,
                   light, shown, opc>>

WorkerCheck2 ==
    /\ wpc = "check2"
    /\ IF cbd = 0
       THEN \* None.isconnected: the AttributeError leaves _call_command
            /\ wpc' = "except"
            /\ wres' = "raised"
            /\ UNCHANGED <<tries, hist>>
       ELSE IF ~isconnected(cbd)
            THEN Return(FALSE, hist) /\ UNCHANGED wres
            ELSE wpc' = "send" /\ UNCHANGED <<tries, hist, wres>>
    /\ UNCHANGED <<devices, state, cbd, sessions, scanning_devices, queue, shutdown,
                   waiting, done, nextId, command, cands, device, wdev, ddev, spc,
                   ppc, pwait, pidx, last_update_success, obs, codec,
                   light, shown, opc>>

\* variant of Detach: line 227 left out
DetachKeepsActive(p) ==
    /\ ddev' = [ddev EXCEPT ![p] = cbd]
    /\ cbd' = cbd

\* _disconnect_current_device up to its await (lines 222-229), called by `p`
Detach(p) ==
    /\ ddev' = [ddev EXCEPT ![p] = cbd]
    /\ cbd' = 0

\* _disconnect_current_device after its await: device.disconnect has run in the
\* executor, then _async_update_mesh_state (lines 229-233)
Disconnected(p) ==
    /\ sessions' = Released(ddev[p])
    /\ ddev' = [ddev EXCEPT ![p] = 0]
    /\ state' = update_mesh_state(state, cbd # 0 /\ sessions'[cbd].key)
    /\ shown' = Shown(state')

\* lines 290-295 and writeCommand up to the write (lines 378-380)
WorkerSend ==
    /\ wpc = "send"
    /\ IF cbd = 0 \/ ~sessions[cbd].key
       THEN \* AttributeError on None, or `assert (self.session_key)`: line 297
            /\ wres' = "failed"
            /\ wpc' = "post"
            /\ UNCHANGED wdev
       ELSE /\ wdev' = cbd
            /\ wpc' = "write"
            /\ UNCHANGED wres
    /\ UNCHANGED <<devices, state, cbd, sessions, scanning_devices, queue, shutdown,
                   waiting, done, nextId, command, tries, cands, device, ddev, spc,
                   ppc, pwait, pidx, last_update_success, hist, obs, codec,
                   light, shown, opc>>

\* command_char.write and the except clauses of writeCommand (lines 382-398)
WriteOutcomes == {"ack", "none", "disconnected", "error"}

WorkerWrite ==
    /\ wpc = "write"
    /\ \E o \in WriteOutcomes :
          IF sessions[wdev].link = "none"
          THEN \* BTLEInternalError 'Helper not started': key dropped, None returned
               /\ o = "none"
               /\ sessions' = [sessions EXCEPT ![wdev].key = FALSE]
               /\ wres' = "none"
          ELSE /\ sessions' = IF o = "disconnected"
                              THEN [sessions EXCEPT ![wdev].key = FALSE,
                                                    ![wdev].link = "none"]
                              ELSE sessions
               /\ wres' = CASE o = "ack" -> "ok"
                            [] o = "none" -> "none"
                            [] OTHER -> "failed"
    /\ wdev' = 0
    /\ wpc' = "post"
    /\ UNCHANGED <<devices, state, cbd, scanning_devices, queue, shutdown, waiting,
                   done, nextId, command, tries, cands, device, ddev, spc, ppc, pwait,
                   pidx, last_update_success, hist, obs, codec, light, shown, opc>>

\* ---------------------------------------------------------- status frames
C_GET_STATUS_RECEIVED == 219
C_NOTIFICATION_RECEIVED == 220
\* any other command byte of a decrypted notification
C_OTHER == 0
FrameKinds == {C_GET_STATUS_RECEIVED, C_NOTIFICATION_RECEIVED, C_OTHER}

\* a mesh id no host registered
UnknownMeshId == NumDevices + 1

\* parseStatusResult up to line 453: the dict built for the two status commands
\* (the light's values stand for all its fields), the empty dict otherwise
parseStatusResult(kind, d) ==
    IF kind \in {C_GET_STATUS_RECEIVED, C_NOTIFICATION_RECEIVED}
    THEN [mesh_id |-> d, state |-> TRUE]
    ELSE <<>>

\* variant of mesh_status_callback: the update is counted before `type` is read
mesh_status_callback_counting_first(devs, status) ==
    LET at == {i \in 1..Len(devs) : devs[i].mesh_id = status.mesh_id}
        counted == [i \in 1..Len(devs) |->
                      IF i \in at THEN [devs[i] EXCEPT !.update_count = @ + 1]
                      ELSE devs[i]]
    IN  IF "mesh_id" \notin DOMAIN status \/ at = {}
        THEN [devs |-> devs, forwarded |-> 0, raised |-> FALSE]
        ELSE IF "type" \notin DOMAIN status
        THEN [devs |-> counted, forwarded |-> 0, raised |-> TRUE]
        ELSE IF status.type # "status"
        THEN [devs |-> counted, forwarded |-> 0, raised |-> FALSE]
        ELSE [devs |-> [i \in 1..Len(devs) |->
                          IF i \in at
                          THEN [counted[i] EXCEPT !.last_update = "fresh"]
                          ELSE devs[i]],
              forwarded |-> status.mesh_id, raised |-> FALSE]

\* mesh_status_callback (lines 184-202): the directory afterwards, the device
\* whose callback got the status (0 = none) and whether the call raised;
\* `status['type']` of a dict without that key is a KeyError
mesh_status_callback(devs, status) ==
    LET at == {i \in 1..Len(devs) : devs[i].mesh_id = status.mesh_id}
    IN  IF "mesh_id" \notin DOMAIN status \/ at = {}
        THEN [devs |-> devs, forwarded |-> 0, raised |-> FALSE]
        ELSE IF "type" \notin DOMAIN status
        THEN [devs |-> devs, forwarded |-> 0, raised |-> TRUE]
        ELSE IF status.type # "status"
        THEN [devs |-> devs, forwarded |-> 0, raised |-> FALSE]
        ELSE [devs |-> [i \in 1..Len(devs) |->
                          IF i \in at
                          THEN [devs[i] EXCEPT !.last_update = "fresh",
                                               !.update_count = @ + 1]
                          ELSE devs[i]],
              forwarded |-> status.mesh_id, raised |-> FALSE]

\* a notification of device d arrives while the write waits for its response:
\* Delegate.handleNotification (lines 191-206), parseStatusResult (410-468) and
\* the scheduler's callback, all in the worker thread; what the callback raises
\* leaves writeCommand through neither except clause and fails the command
StatusFrame ==
    /\ wpc = "write"
    /\ sessions[wdev].link = "open"
    /\ sessions[wdev].key
    /\ \E kind \in FrameKinds, d \in MeshIds \cup {UnknownMeshId} :
          LET status == parseStatusResult(kind, d)
              r == IF DOMAIN status # {} /\ sessions[wdev].status_callback
                   THEN mesh_status_callback(devices, status)
                   ELSE [devs |-> devices, forwarded |-> 0, raised |-> FALSE]
          IN  /\ devices' = r.devs
              /\ obs' = [obs EXCEPT
                            !.forwarded = [e \in MeshIds |->
                                IF e = r.forwarded THEN @[e] + 1 ELSE @[e]],
                            !.heard = [e \in MeshIds |->
                                IF e = d /\ DOMAIN status # {} THEN "fresh" ELSE @[e]]]
              /\ IF r.raised
                 THEN wres' = "failed" /\ wpc' = "post" /\ wdev' = 0
                 ELSE UNCHANGED <<wres, wpc, wdev>>
    /\ UNCHANGED <<state, cbd, sessions, scanning_devices, queue, shutdown, waiting,
                   done, nextId, command, tries, cands, device, ddev, spc, ppc, pwait,
                   pidx, last_update_success, hist, codec, light, shown, opc>>

\* lines 305-307
Failed(res, cmd) == res = "failed" \/ (res = "none" /\ ~cmd.allow_to_fail)

\* lines 315-318
CallResult(res, cmd) == ~(Failed(res, cmd) /\ ~cmd.allow_to_fail)

\* variant of WorkerPost: the failed session is kept (lines 309-312 left out)
WorkerPostKeepsSession ==
    /\ wpc = "post"
    /\ Return(CallResult(wres, command), hist)
    /\ UNCHANGED <<devices, state, cbd, sessions, scanning_devices, queue, shutdown,
                   waiting, done, nextId, command, cands, device, wdev, wres, ddev,
                   spc, ppc, pwait, pidx, last_update_success, obs, codec,
                   light, shown, opc>>

\* lines 305-318: on failure _disconnect_current_device runs on the loop
WorkerPost ==
    /\ wpc = "post"
    /\ IF Failed(wres, command) /\ cbd # 0
       THEN /\ Detach("worker")
            /\ wpc' = "disconnect"
            /\ UNCHANGED <<tries, hist>>
       ELSE /\ Return(CallResult(wres, command),
                      [hist EXCEPT !.resend = Failed(wres, command)])
            /\ UNCHANGED <<cbd, ddev>>
    /\ UNCHANGED <<devices, state, sessions, scanning_devices, queue, shutdown,
                   waiting, done, nextId, command, cands, device, wdev, wres, spc,
                   ppc, pwait, pidx, last_update_success, obs, codec,
                   light, shown, opc>>

\* variant of WorkerExcept: the callback sits inside the try block and is passed over
WorkerExceptSkipsCallback ==
    /\ wpc = "except"
    /\ IF cbd # 0
       THEN /\ Detach("worker")
            /\ wpc' = "disconnect"
            /\ UNCHANGED hist
       ELSE /\ wpc' = "loop"
            /\ hist' = Finish(hist, "exception")
            /\ UNCHANGED <<cbd, ddev>>
    /\ UNCHANGED <<devices, state, sessions, scanning_devices, queue, shutdown,
                   waiting, done, nextId, command, tries, cands, device, wdev, wres,
                   spc, ppc, pwait, pidx, last_update_success, obs, codec,
                   light, shown, opc>>

\* the exception handler of _process_command_queue (lines 273-277)
WorkerExcept ==
    /\ wpc = "except"
    /\ IF cbd # 0
       THEN /\ Detach("worker")
            /\ wpc' = "disconnect"
            /\ UNCHANGED hist
       ELSE /\ wpc' = "callback"
            /\ hist' = Finish(hist, "exception")
            /\ UNCHANGED <<cbd, ddev>>
    /\ UNCHANGED <<devices, state, sessions, scanning_devices, queue, shutdown,
                   waiting, done, nextId, command, tries, cands, device, wdev, wres,
                   spc, ppc, pwait, pidx, last_update_success, obs, codec,
                   light, shown, opc>>

WorkerDisconnected ==
    /\ wpc = "disconnect"
    /\ Disconnected("worker")
    /\ IF wres = "raised"
       THEN /\ wpc' = "callback"
            /\ hist' = Finish(hist, "exception")
            /\ UNCHANGED tries
       ELSE Return(CallResult(wres, command),
                   [hist EXCEPT !.resend = Failed(wres, command)])
    /\ UNCHANGED <<devices, cbd, scanning_devices, queue, shutdown, waiting, done,
                   nextId, command, cands, device, wdev, wres, spc, ppc, pwait, pidx,
                   last_update_success, obs, codec, light, opc>>

\* variant of command_executed: one completion flag shared by all the calls
command_executed_any(cells, cmd) == cells \cup waiting \cup ({pwait} \ {0})

\* command['callback'](): command_executed sets the `done` cell of that call; a
\* cell nobody awaits any more (the poll's wait timed out) is dropped
command_executed(cells, cmd) == cells \cup ({cmd.id} \cap (waiting \cup {pwait}))

\* lines 279-282
WorkerCallback ==
    /\ wpc = "callback"
    /\ done' = command_executed(done, command)
    /\ hist' = [hist EXCEPT !.callbacks = @ + 1]
    /\ wpc' = "loop"
    /\ UNCHANGED <<devices, state, cbd, sessions, scanning_devices, queue, shutdown,
                   waiting, nextId, command, tries, cands, device, wdev, wres, ddev,
                   spc, ppc, pwait, pidx, last_update_success, obs, codec,
                   light, shown, opc>>

\* ------------------------------------------------------- async_shutdown
Shutdown ==
    /\ spc = "idle"
    /\ shutdown' = TRUE
    /\ IF cbd # 0
       THEN Detach("shutdown") /\ spc' = "disconnect"
       ELSE spc' = "done" /\ UNCHANGED <<cbd, ddev>>
    /\ UNCHANGED <<devices, state, sessions, scanning_devices, queue, waiting, done,
                   nextId, wpc, command, tries, cands, device, wdev, wres, ppc, pwait,
                   pidx, last_update_success, hist, obs, codec, light, shown, opc>>

ShutdownDisconnected ==
    /\ spc = "disconnect"
    /\ Disconnected("shutdown")
    /\ spc' = "done"
    /\ UNCHANGED <<devices, cbd, scanning_devices, queue, shutdown, waiting, done,
                   nextId, wpc, command, tries, cands, device, wdev, wres, ppc, pwait,
                   pidx, last_update_success, hist, obs, codec, light, opc>>


\* --------------------------------------------------- _async_update_data
\* update_status_of_all_devices_to_disabled (lines 170-175)
update_status_of_all_devices_to_disabled(devs) ==
    [i \in 1..Len(devs) |->
        IF devs[i].last_update # "none"
        THEN [devs[i] EXCEPT !.last_update = "none", !.update_count = 0]
        ELSE devs[i]]

\* variant of Disabled: the test of line 172 left out
DisabledAll(devs) == {devs[i].mesh_id : i \in 1..Len(devs)}

\* the devices whose callback that sweep calls with {'state': None} (line 173)
Disabled(devs) ==
    {devs[i].mesh_id : i \in {j \in 1..Len(devs) : devs[j].last_update # "none"}}

\* line 164 / line 173 seen from the host: one more {'state': None} for each of ids
NullCallbacks(o, ids) ==
    [o EXCEPT !.nulls = [d \in MeshIds |-> IF d \in ids THEN @[d] + 1 ELSE @[d]]]

\* lines 150-151: no update, or none for the last minute
NeedsStatusRequest(rec) == rec.last_update \in {"none", "old60", "old90"}

\* lines 162-166: the record after the 90 s check
Stale(rec) == rec.last_update = "old90"

AfterStalenessCheck(rec) ==
    IF Stale(rec) THEN [rec EXCEPT !.last_update = "none", !.update_count = 0]
    ELSE rec

\* the cycle raised UpdateFailed (or let an exception through)
PollFailed ==
    /\ ppc' = "idle"
    /\ pidx' = 0
    /\ last_update_success' = FALSE

\* the poll's own call of _async_add_command_to_queue, past the is_alive check
PollEnqueue(atf) ==
    /\ nextId <= MaxCommands
    /\ queue' = Enqueue(queue, [id |-> nextId, allow_to_fail |-> atf])
    /\ pwait' = nextId
    /\ nextId' = nextId + 1

\* the poll's submit call is over (completed or timed out): its cell is gone
PollWaitOver ==
    /\ pwait' = 0
    /\ done' = done \ {pwait}
    /\ hist' = [hist EXCEPT !.finished = @ \ {pwait}, !.exhausted = @ \ {pwait},
                            !.held = "short"]

\* the device loop from index i on (lines 145-168); devices heard from within
\* the minute are passed over without a suspension
FirstToRequest(devs, i) ==
    LET idx == {j \in i..Len(devs) : NeedsStatusRequest(devs[j])}
    IN  IF idx = {} THEN Len(devs) + 1
        ELSE CHOOSE j \in idx : \A k \in idx : j <= k

\* line 154
Requested(devs, j) == [devs EXCEPT ![j].status_request_count = @ + 1]

PollDeviceLoop(devs, i) ==
    LET j == FirstToRequest(devs, i)
    IN  IF j > Len(devs)
        THEN /\ ppc' = "idle"
             /\ pidx' = 0
             /\ last_update_success' = TRUE
             /\ devices' = devs
             /\ UNCHANGED <<queue, pwait, nextId>>
        ELSE IF ~is_alive
             THEN \* line 154, then UpdateFailed at line 244
                  /\ PollFailed
                  /\ devices' = Requested(devs, j)
                  /\ UNCHANGED <<queue, pwait, nextId>>
             ELSE IF nextId > MaxCommands
             THEN \* the bound on commands is reached: the cycle is followed no further
                  /\ ppc' = "cut"
                  /\ pidx' = j
                  /\ devices' = devs
                  /\ UNCHANGED <<queue, pwait, nextId, last_update_success>>
             ELSE /\ PollEnqueue(TRUE)
                  /\ ppc' = "wait_directed"
                  /\ pidx' = j
                  /\ devices' = Requested(devs, j)
                  /\ UNCHANGED last_update_success

\* lines 134-143, with the directory as the cycle left it
PollAfterBroadcast(devs) ==
    IF ~is_connected
    THEN /\ IF ~last_update_success
            THEN /\ devices' = update_status_of_all_devices_to_disabled(devs)
                 /\ obs' = NullCallbacks(obs, Disabled(devs))
            ELSE /\ devices' = devs
                 /\ UNCHANGED obs
         /\ PollFailed
    ELSE /\ devices' = devs
         /\ ppc' = "sleep"
         /\ UNCHANGED <<pidx, last_update_success, obs>>

\* lines 128-132
PollBroadcast(devs) ==
    IF ~is_alive
    THEN PollAfterBroadcast(devs) /\ UNCHANGED <<queue, pwait, nextId>>
    ELSE /\ PollEnqueue(FALSE)
         /\ ppc' = "wait_broadcast"
         /\ devices' = devs
         /\ UNCHANGED <<pidx, last_update_success, obs>>

\* lines 120-126, and _async_get_devices_rssi up to its await (lines 367-375)
PollRssiCheck ==
    IF state.last_rssi_check = "none" /\ ~scanning_devices
    THEN /\ scanning_devices' = TRUE
         /\ ppc' = "scan"
         /\ UNCHANGED <<devices, queue, pwait, nextId, pidx, last_update_success,
                        obs>>
    ELSE /\ PollBroadcast(devices)
         /\ UNCHANGED scanning_devices

\* variant of PollStart: lines 113-118 left out
PollStartKeepsSession ==
    /\ ppc = "idle"
    /\ hist' = [hist EXCEPT !.held = IF state.last_connection = "old" /\ cbd # 0
                                     THEN "long" ELSE "short"]
    /\ IF ~is_alive
       THEN /\ PollFailed
            /\ obs' = [obs EXCEPT !.died = TRUE]
            /\ UNCHANGED <<devices, cbd, ddev, scanning_devices, queue, pwait, nextId>>
       ELSE /\ PollRssiCheck
            /\ UNCHANGED <<cbd, ddev>>
    /\ UNCHANGED <<state, sessions, shutdown, waiting, done, wpc, command, tries,
                   cands, device, wdev, wres, spc, opc, shown, codec, light>>

\* lines 108-118
PollStart ==
    /\ ppc = "idle"
    /\ hist' = [hist EXCEPT !.held = IF state.last_connection = "old" /\ cbd # 0
                                     THEN "long" ELSE "short"]
    /\ IF ~is_alive
       THEN /\ PollFailed
            /\ obs' = [obs EXCEPT !.died = TRUE]
            /\ UNCHANGED <<devices, cbd, ddev, scanning_devices, queue, pwait, nextId>>
       ELSE IF state.last_connection = "old" /\ cbd # 0
            THEN /\ Detach("poll")
                 /\ ppc' = "disconnect"
                 /\ UNCHANGED <<devices, scanning_devices, queue, pwait, nextId,
                                pidx, last_update_success, obs>>
            ELSE /\ PollRssiCheck
                 /\ UNCHANGED <<cbd, ddev>>
    /\ UNCHANGED <<state, sessions, shutdown, waiting, done, wpc, command, tries,
                   cands, device, wdev, wres, spc, codec, light, shown, opc>>

\* the forced disconnect is over: lines 229-233, then line 120
PollDisconnected ==
    /\ ppc = "disconnect"
    /\ Disconnected("poll")
    /\ PollRssiCheck
    /\ UNCHANGED <<cbd, shutdown, waiting, done, wpc, command, tries, cands, device,
                   wdev, wres, spc, hist, codec, light, opc>>

\* device.disconnect is still running after 10 s: the timeout of line 117 is the
\* first of the two to fire and cancels the cycle at line 229; the CancelledError
\* passes the except of line 230, line 233 is not reached and the TimeoutError
\* leaves _async_update_data. The executor thread goes on to release the session.
PollDisconnectTimeout ==
    /\ ppc = "disconnect"
    /\ sessions' = Released(ddev["poll"])
    /\ ddev' = [ddev EXCEPT !["poll"] = 0]
    /\ PollFailed
    /\ hist' = [hist EXCEPT !.held = "short"]
    /\ UNCHANGED <<devices, state, cbd, scanning_devices, queue, shutdown, waiting,
                   done, nextId, wpc, command, tries, cands, device, wdev, wres, spc,
                   pwait, obs, opc, shown, codec, light>>

\* lines 379-391: what the scan found for a device
ScanResults == ScanRssi \cup {RSSI_NO_VALUE, RSSI_UNKNOWN}

\* line 380: `device_info['mac'].upper()` raises on a record without a mac; the
\* records before it have their rssi already
FirstWithoutMac(devs) ==
    LET idx == {i \in 1..Len(devs) : ~devs[i].mac}
    IN  IF idx = {} THEN Len(devs) + 1
        ELSE CHOOSE i \in idx : \A k \in idx : i <= k

\* lines 379-391 with the scan result `found`
WithRssi(devs, found) ==
    [i \in 1..Len(devs) |->
        IF i < FirstWithoutMac(devs) THEN [devs[i] EXCEPT !.rssi = found[i]]
        ELSE devs[i]]

\* DeviceScanner.async_find_devices returned `found`: lines 377-396, then 128
Scanned(results) ==
    /\ ppc = "scan"
    /\ \E found \in [1..Len(devices) -> results] :
          PollBroadcast(WithRssi(devices, found))
    /\ IF FirstWithoutMac(devices) > Len(devices)
       THEN /\ state' = update_mesh_state([state EXCEPT !.last_rssi_check = "set"],
                                          is_connected)
            /\ shown' = Shown(state')
            /\ scanning_devices' = FALSE
       ELSE \* the exception leaves _async_get_devices_rssi and is logged at line 126
            UNCHANGED <<state, scanning_devices, shown>>
    /\ UNCHANGED <<cbd, sessions, shutdown, waiting, done, wpc, command, tries, cands,
                   device, wdev, wres, ddev, spc, hist, codec, light, opc>>

PollScanned == Scanned(ScanResults)

\* the scan raised, or the 120 s timeout cancelled it: line 125
PollScanFailed ==
    /\ ppc = "scan"
    /\ PollBroadcast(devices)
    /\ UNCHANGED <<state, cbd, sessions, scanning_devices, shutdown, waiting, done,
                   wpc, command, tries, cands, device, wdev, wres, ddev, spc, hist,
                   codec, light, shown, opc>>

\* ------------------------------------------------- an overlapping refresh
\* A second refresh of the coordinator (the startup listener of lines 62-66, a
\* request of an entity) reaches line 124 while the cycle above is under way:
\* _async_get_devices_rssi up to its return at line 369 or its await at line 375.

\* variant of OtherScanCall: the test of line 367 left out
OtherScanCallUnguarded ==
    /\ opc = "idle"
    /\ is_alive
    /\ state.last_rssi_check = "none"
    /\ scanning_devices' = TRUE
    /\ opc' = "scan"
    /\ UNCHANGED <<devices, state, cbd, sessions, queue, shutdown, waiting, done,
                   nextId, wpc, command, tries, cands, device, wdev, wres, ddev, spc,
                   ppc, pwait, pidx, last_update_success, hist, obs, shown, codec,
                   light>>

OtherScanCall ==
    /\ opc = "idle"
    /\ is_alive
    /\ state.last_rssi_check = "none"
    /\ IF scanning_devices
       THEN opc' = "returned" /\ UNCHANGED scanning_devices
       ELSE opc' = "scan" /\ scanning_devices' = TRUE
    /\ UNCHANGED <<devices, state, cbd, sessions, queue, shutdown, waiting, done,
                   nextId, wpc, command, tries, cands, device, wdev, wres, ddev, spc,
                   ppc, pwait, pidx, last_update_success, hist, obs, shown, codec,
                   light>>

\* its scan returned: lines 377-396
OtherScanned ==
    /\ opc = "scan"
    /\ \E found \in [1..Len(devices) -> ScanResults] :
          devices' = WithRssi(devices, found)
    /\ IF FirstWithoutMac(devices) > Len(devices)
       THEN /\ state' = update_mesh_state([state EXCEPT !.last_rssi_check = "set"],
                                          is_connected)
            /\ shown' = Shown(state')
            /\ scanning_devices' = FALSE
       ELSE UNCHANGED <<state, scanning_devices, shown>>
    /\ opc' = "returned"
    /\ UNCHANGED <<cbd, sessions, queue, shutdown, waiting, done, nextId, wpc, command,
                   tries, cands, device, wdev, wres, ddev, spc, ppc, pwait, pidx,
                   last_update_success, hist, obs, codec, light>>

\* its scan was cancelled by the 120 s timeout of line 122
OtherScanFailed ==
    /\ opc = "scan"
    /\ opc' = "returned"
    /\ UNCHANGED <<devices, state, cbd, sessions, scanning_devices, queue, shutdown,
                   waiting, done, nextId, wpc, command, tries, cands, device, wdev,
                   wres, ddev, spc, ppc, pwait, pidx, last_update_success, hist, obs,
                   shown, codec, light>>

\* that refresh is over
OtherRefreshOver ==
    /\ opc = "returned"
    /\ opc' = "idle"
    /\ UNCHANGED <<devices, state, cbd, sessions, scanning_devices, queue, shutdown,
                   waiting, done, nextId, wpc, command, tries, cands, device, wdev,
                   wres, ddev, spc, ppc, pwait, pidx, last_update_success, hist, obs,
                   shown, codec, light>>

\* the broadcast request completed (line 130)
PollBroadcastDone ==
    /\ ppc = "wait_broadcast"
    /\ pwait \in done
    /\ PollWaitOver
    /\ PollAfterBroadcast(devices)
    /\ UNCHANGED <<state, cbd, sessions, scanning_devices, queue, shutdown, waiting,
                   nextId, wpc, command, tries, cands, device, wdev, wres, ddev, spc,
                   codec, light, shown, opc>>

\* its 20 s timeout fired: logged at line 132
PollBroadcastTimeout ==
    /\ ppc = "wait_broadcast"
    /\ PollWaitOver
    /\ PollAfterBroadcast(devices)
    /\ UNCHANGED <<state, cbd, sessions, scanning_devices, queue, shutdown, waiting,
                   nextId, wpc, command, tries, cands, device, wdev, wres, ddev, spc,
                   codec, light, shown, opc>>

\* line 143 slept: the device loop starts
PollSlept ==
    /\ ppc = "sleep"
    /\ PollDeviceLoop(devices, 1)
    /\ UNCHANGED <<state, cbd, sessions, scanning_devices, shutdown, waiting,
                   done, wpc, command, tries, cands, device, wdev, wres, ddev, spc,
                   hist, obs, codec, light, shown, opc>>

\* the directed request completed (line 156): sleep of line 159
PollDirectedDone ==
    /\ ppc = "wait_directed"
    /\ pwait \in done
    /\ PollWaitOver
    /\ ppc' = "sleep_directed"
    /\ UNCHANGED <<devices, state, cbd, sessions, scanning_devices, queue, shutdown,
                   waiting, nextId, wpc, command, tries, cands, device, wdev, wres,
                   ddev, spc, pidx, last_update_success, obs, codec, light, shown, opc>>

\* the 20 s timeout of line 155 fired: nothing catches it
PollDirectedTimeout ==
    /\ ppc = "wait_directed"
    /\ PollWaitOver
    /\ PollFailed
    /\ UNCHANGED <<devices, state, cbd, sessions, scanning_devices, queue, shutdown,
                   waiting, nextId, wpc, command, tries, cands, device, wdev, wres,
                   ddev, spc, obs, codec, light, shown, opc>>

\* lines 161-166 for the device at pidx, then the rest of the loop
PollDirectedSlept ==
    /\ ppc = "sleep_directed"
    /\ LET checked == [devices EXCEPT ![pidx] = AfterStalenessCheck(@)]
       IN  /\ obs' = IF Stale(devices[pidx])
                     THEN NullCallbacks(obs, {devices[pidx].mesh_id})
                     ELSE obs
           /\ PollDeviceLoop(checked, pidx + 1)
    /\ UNCHANGED <<state, cbd, sessions, scanning_devices, shutdown, waiting, done,
                   wpc, command, tries, cands, device, wdev, wres, ddev, spc, hist,
                   codec, light, shown, opc>>

\* ------------------------------------------------------------------ time
\* two hours pass since the connection was made (line 115)
ConnectionAges ==
    /\ state.last_connection = "fresh"
    /\ state' = [state EXCEPT !.last_connection = "old"]
    /\ UNCHANGED <<devices, cbd, sessions, scanning_devices, queue, shutdown, waiting,
                   done, nextId, wpc, command, tries, cands, device, wdev, wres, ddev,
                   spc, ppc, pwait, pidx, last_update_success, hist, obs, codec,
                   light, shown,
                   opc>>

\* lines 151 and 163: a status is within the minute, older than 60 s, older
\* than 90 s
Age(v) == CASE v = "fresh" -> "old60" [] v = "old60" -> "old90" [] OTHER -> v

\* the last status of device d gets older
TimePasses ==
    /\ \E d \in MeshIds :
          /\ \/ devices[DeviceIndex(d)].last_update \in {"fresh", "old60"}
             \/ obs.heard[d] \in {"fresh", "old60"}
          /\ devices' = [devices EXCEPT ![DeviceIndex(d)].last_update = Age(@)]
          /\ obs' = [obs EXCEPT !.heard[d] = Age(@)]
    /\ UNCHANGED <<state, cbd, sessions, scanning_devices, queue, shutdown, waiting,
                   done, nextId, wpc, command, tries, cands, device, wdev, wres, ddev,
                   spc, ppc, pwait, pidx, last_update_success, hist, codec,
                   light, shown, opc>>

\* ------------------------------------------------------------------ Next
Worker ==
    \/ WorkerLoop
    \/ WorkerGet
    \/ WorkerCall
    \/ ConnectOk
    \/ ConnectFailed
    \/ WorkerCheck
    \/ WorkerCheck2
    \/ WorkerSend
    \/ WorkerWrite
    \/ WorkerPost
    \/ WorkerExcept
    \/ WorkerDisconnected
    \/ WorkerCallback

Poll ==
    \/ PollStart
    \/ PollDisconnected
    \/ PollDisconnectTimeout
    \/ PollScanned
    \/ PollScanFailed
    \/ PollBroadcastDone
    \/ PollBroadcastTimeout
    \/ PollSlept
    \/ PollDirectedDone
    \/ PollDirectedTimeout
    \/ PollDirectedSlept

Next ==
    \/ Submit
    \/ \E i \in CmdIds : SubmitReturn(i)
    \/ Worker
    \/ Shutdown
    \/ ShutdownDisconnected
    \/ Poll
    \/ ConnectionAges

Spec == Init /\ [][Next]_vars

\* ---------------------------------------------------------- packetutils
\* Bytes are the numbers 0..255, byte strings are sequences of them (`\o <<>>`
\* turns a function over 1..n into the sequence written out).
BLOCK == 16
PAYLOAD_LEN == 15

\* the longest `data` of the calls looked at
MaxDataLen == 11

RECURSIVE XorBits(_, _, _)
XorBits(a, b, n) ==
    IF n = 0 THEN 0
    ELSE ((a + b) % 2) + 2 * XorBits(a \div 2, b \div 2, n - 1)

\* a ^ b on bytes
Xor(a, b) == XorBits(a, b, 8)

\* [a ^ b for (a, b) in zip(x, y)]: as long as the shorter one
XorZip(x, y) ==
    [i \in 1..(IF Len(x) < Len(y) THEN Len(x) ELSE Len(y)) |-> Xor(x[i], y[i])]
    \o <<>>

Reversed(x) == [i \in 1..Len(x) |-> x[Len(x) + 1 - i]] \o <<>>

\* variant of ljust: one byte of padding too many
ljust_wider(x, n) == IF Len(x) > n THEN x ELSE x \o [i \in 1..(n + 1 - Len(x)) |-> 0]

\* bytes.ljust(n, b'\x00'): pads, never cuts
ljust(x, n) == IF Len(x) >= n THEN x ELSE x \o [i \in 1..(n - Len(x)) |-> 0]

\* x[from:to] of Python (from, to counted from 0, to exclusive, cut at the end)
Slice(x, from, to) ==
    SubSeq(x, from + 1, IF to > Len(x) THEN Len(x) ELSE to)

RECURSIVE SumBytes(_)
SumBytes(x) == IF x = <<>> THEN 0 ELSE Head(x) + SumBytes(Tail(x))

\* AES.new(k, MODE_ECB).encrypt(v) on one block. The cipher is library code; it
\* is stood in for by a keyed mixing of the block in which every byte of the
\* result depends on the key and on every byte of the block.
Cipher(k, v) ==
    LET mix == 3 * SumBytes(v) + SumBytes(k)
    IN  [i \in 1..BLOCK |-> (v[i] + k[i] + 17 * i + mix) % 256] \o <<>>

\* encrypt (lines 5-15)
encrypt(key, value) ==
    Reversed(Cipher(Reversed(key), Reversed(ljust(value, BLOCK))))

\* make_checksum (lines 17-33)
RECURSIVE ChecksumBlocks(_, _, _)
ChecksumBlocks(key, check, payload) ==
    IF payload = <<>> THEN check
    ELSE ChecksumBlocks(key,
                        encrypt(key, XorZip(check, ljust(Slice(payload, 0, BLOCK),
                                                         BLOCK))),
                        Slice(payload, BLOCK, Len(payload)))

make_checksum(key, nonce, payload) ==
    ChecksumBlocks(key, encrypt(key, ljust(nonce \o <<Len(payload)>>, BLOCK)),
                   payload)

\* variant of CryptBlocks: the key stream is added instead of xor-ed
RECURSIVE CryptBlocksAdded(_, _, _)
CryptBlocksAdded(key, base, payload) ==
    IF payload = <<>> THEN <<>>
    ELSE LET enc_base == encrypt(key, base)
             block == Slice(payload, 0, BLOCK)
         IN  ([i \in 1..Len(block) |-> (enc_base[i] + block[i]) % 256] \o <<>>)
             \o CryptBlocksAdded(key, [base EXCEPT ![1] = @ + 1],
                                 Slice(payload, BLOCK, Len(payload)))

\* the loop of crypt_payload (lines 44-47), from the counter block `base` on
RECURSIVE CryptBlocks(_, _, _)
CryptBlocks(key, base, payload) ==
    IF payload = <<>> THEN <<>>
    ELSE XorZip(encrypt(key, base), Slice(payload, 0, BLOCK))
         \o CryptBlocks(key, [base EXCEPT ![1] = @ + 1],
                        Slice(payload, BLOCK, Len(payload)))

\* crypt_payload (lines 35-49)
crypt_payload(key, nonce, payload) ==
    CryptBlocks(key, ljust(<<0>> \o nonce, BLOCK), payload)

\* struct.pack("<H", dest_id)
PackH(n) == <<n % 256, n \div 256>>

\* lines 64-66: the nonce a command is sent under
CommandNonce(address, s) == Slice(Reversed(address), 0, 4) \o <<1>> \o s

\* line 70: the payload of a command before it is encrypted
CommandPayload(dest_id, opcode, data) ==
    ljust(PackH(dest_id) \o <<opcode>> \o <<96, 1>> \o data, PAYLOAD_LEN)

\* make_command_packet (lines 51-80), s being what urandom(3) returned
make_command_packet(key, address, dest_id, opcode, data, s) ==
    LET nonce == CommandNonce(address, s)
        payload == CommandPayload(dest_id, opcode, data)
        check == make_checksum(key, nonce, payload)
    IN  s \o Slice(check, 0, 2) \o crypt_payload(key, nonce, payload)

\* variant of decrypt_packet: the check bytes are not compared
decrypt_packet_unchecked(key, address, packet) ==
    LET nonce == Slice(Reversed(address), 0, 3) \o Slice(packet, 0, 5)
        payload == crypt_payload(key, nonce, Slice(packet, 7, Len(packet)))
    IN  [none |-> FALSE, packet |-> Slice(packet, 0, 7) \o payload]

\* decrypt_packet (lines 82-110); none stands for the return value None
decrypt_packet(key, address, packet) ==
    LET nonce == Slice(Reversed(address), 0, 3) \o Slice(packet, 0, 5)
        payload == crypt_payload(key, nonce, Slice(packet, 7, Len(packet)))
        check == make_checksum(key, nonce, payload)
    IN  IF Slice(check, 0, 2) # Slice(packet, 5, 7)
        THEN [none |-> TRUE, packet |-> <<>>]
        ELSE [none |-> FALSE, packet |-> Slice(packet, 0, 7) \o payload]

\* the calls looked at: two session keys, two addresses, a unicast, a two-byte
\* and the broadcast destination, two commands, every length of data up to
\* MaxDataLen with two contents, two sequence numbers
Keys == {[i \in 1..BLOCK |-> i] \o <<>>,
         [i \in 1..BLOCK |-> (7 * i + 200) % 256] \o <<>>}
Addresses == {<<164, 193, 56, 1, 2, 3>>, <<164, 193, 56, 250, 251, 252>>}
Dests == {1, 258, 65535}
Commands == {208, 218}
Datas ==
    {[i \in 1..n |-> (f * i) % 256] \o <<>> : n \in 0..MaxDataLen, f \in {0, 37}}
Sequences == {<<0, 0, 0>>, <<18, 52, 86>>}

CodecCalls ==
    [stage : {"called"}, key : Keys, address : Addresses, dest_id : Dests,
     command : Commands, data : Datas, s : Sequences]

InitCodec ==
    /\ InitWith({Registered([i \in 1..NumDevices |-> i])})
    /\ codec \in CodecCalls
    /\ light = NoLight

\* make_command_packet returns
Build ==
    /\ codec.stage = "called"
    /\ codec' = [stage |-> "built", key |-> codec.key, address |-> codec.address,
                 dest_id |-> codec.dest_id, command |-> codec.command,
                 data |-> codec.data, s |-> codec.s,
                 packet |-> make_command_packet(codec.key, codec.address,
                                                codec.dest_id, codec.command,
                                                codec.data, codec.s)]
    /\ UNCHANGED <<devices, state, cbd, sessions, scanning_devices, queue, shutdown,
                   waiting, done, nextId, wpc, command, tries, cands, device, wdev,
                   wres, ddev, spc, ppc, pwait, pidx, last_update_success, hist, obs,
                   shown, opc, light>>

\* decrypt_packet is handed that packet and returns
Decrypt ==
    /\ codec.stage = "built"
    /\ codec' = [stage |-> "decrypted", key |-> codec.key, address |-> codec.address,
                 dest_id |-> codec.dest_id, command |-> codec.command,
                 data |-> codec.data, s |-> codec.s, packet |-> codec.packet,
                 dec |-> decrypt_packet(codec.key, codec.address, codec.packet)]
    /\ UNCHANGED <<devices, state, cbd, sessions, scanning_devices, queue, shutdown,
                   waiting, done, nextId, wpc, command, tries, cands, device, wdev,
                   wres, ddev, spc, ppc, pwait, pidx, last_update_success, hist, obs,
                   shown, opc, light>>

NextCodec == Build \/ Decrypt

CodecSpec == InitCodec /\ [][NextCodec]_vars

\* ------------------------------------------------- the session on its own
\* One AwoxMeshLight driven by a host the way the scheduler drives it: connect,
\* status_callback assignment, writeCommand, disconnect, stop, with the device
\* sending notifications while a call waits on the transport.
MaxCalls == 3
MaxNotifications == 1

\* pair_char.read() (line 263): accepted, rejected, any other first byte
PAIR_OK == 13
PAIR_REJECTED == 14
Replies == {<<PAIR_OK, 1, 2, 3, 4, 5, 6, 7, 8>>, <<PAIR_OK, 9>>,
            <<PAIR_REJECTED>>, <<PAIR_REJECTED, 1, 2, 3, 4, 5, 6, 7, 8>>,
            <<0>>, <<7, 1, 2, 3, 4, 5, 6, 7, 8>>}

\* urandom(8) of line 256
SessionRandoms == {<<1, 2, 3, 4, 5, 6, 7, 8>>, <<255, 0, 255, 0, 255, 0, 255, 0>>}

\* make_session_key (packetutils lines 122-128)
make_session_key(mesh_name, mesh_password, session_random, response_random) ==
    encrypt(XorZip(ljust(mesh_name, BLOCK), ljust(mesh_password, BLOCK)),
            session_random \o response_random)

\* variant of Accepted: the rejection byte is taken for success too
AcceptedOrRejected(reply) == reply[1] \in {PAIR_OK, PAIR_REJECTED}

\* line 264: `reply[0] == 0xd`
Accepted(reply) == reply[1] = PAIR_OK

\* data[i] of Python on a byte string
Byte(data, i) == data[i + 1]

\* a host call begins: the light is in no call and calls are left
Callable == light.pc = "idle" /\ light.calls < MaxCalls

\* connect up to its read of the pairing reply (lines 247-261); btdevice.connect
\* raises when the device does not answer and then leaves no transport
LightConnect ==
    /\ Callable
    /\ light.link = "none"
    /\ \E up \in BOOLEAN, r \in SessionRandoms :
          light' = IF up
                   THEN [light EXCEPT !.link = "open", !.session_random = r,
                                      !.pc = "pair", !.caller = "connect",
                                      !.reply = <<>>, !.calls = @ + 1]
                   ELSE [light EXCEPT !.result = "raised", !.reply = <<>>,
                                      !.calls = @ + 1]
    /\ UNCHANGED <<devices, state, cbd, sessions, scanning_devices, queue, shutdown,
                   waiting, done, nextId, wpc, command, tries, cands, device, wdev,
                   wres, ddev, spc, ppc, pwait, pidx, last_update_success, hist, obs,
                   shown, opc, codec>>

\* the reply is read (lines 263-274): the key is made, or disconnect is called
LightPaired ==
    /\ light.pc = "pair"
    /\ \E reply \in Replies :
          light' = IF Accepted(reply)
                   THEN [light EXCEPT
                            !.session_key =
                                make_session_key(MeshName, MeshPassword,
                                                 light.session_random,
                                                 Slice(reply, 1, 9)),
                            !.reply = reply, !.result = "True",
                            !.pc = "idle", !.caller = "none",
                            !.data = <<>>, !.handled = "none"]
                   ELSE [light EXCEPT !.reply = reply, !.pc = "release",
                                      !.data = <<>>, !.handled = "none"]
    /\ UNCHANGED <<devices, state, cbd, sessions, scanning_devices, queue, shutdown,
                   waiting, done, nextId, wpc, command, tries, cands, device, wdev,
                   wres, ddev, spc, ppc, pwait, pidx, last_update_success, hist, obs,
                   shown, opc, codec>>

\* the read of line 263 (or a write before it) raises: connect raises with the
\* transport as it is and no key made
LightPairFailed ==
    /\ light.pc = "pair"
    /\ light' = [light EXCEPT !.result = "raised", !.pc = "idle", !.caller = "none",
                              !.data = <<>>, !.handled = "none"]
    /\ UNCHANGED <<devices, state, cbd, sessions, scanning_devices, queue, shutdown,
                   waiting, done, nextId, wpc, command, tries, cands, device, wdev,
                   wres, ddev, spc, ppc, pwait, pidx, last_update_success, hist, obs,
                   shown, opc, codec>>

\* line 355 of the scheduler: `status_callback = self.mesh_status_callback`
LightSetCallback ==
    /\ light.pc = "idle"
    /\ light.session_key # <<>>
    /\ ~light.status_callback
    /\ light' = [light EXCEPT !.status_callback = TRUE]
    /\ UNCHANGED <<devices, state, cbd, sessions, scanning_devices, queue, shutdown,
                   waiting, done, nextId, wpc, command, tries, cands, device, wdev,
                   wres, ddev, spc, ppc, pwait, pidx, last_update_success, hist, obs,
                   shown, opc, codec>>

\* disconnect or stop is called (lines 559-561, 568-570)
LightDisconnect ==
    /\ Callable
    /\ \E method \in {"disconnect", "stop"} :
          light' = [light EXCEPT !.pc = "release", !.caller = method,
                                 !.reply = <<>>, !.calls = @ + 1]
    /\ UNCHANGED <<devices, state, cbd, sessions, scanning_devices, queue, shutdown,
                   waiting, done, nextId, wpc, command, tries, cands, device, wdev,
                   wres, ddev, spc, ppc, pwait, pidx, last_update_success, hist, obs,
                   shown, opc, codec>>

\* btdevice.disconnect() / btdevice.stop() (lines 562, 571): the transport is
\* released, or the call raises, is logged (lines 563-564) and leaves it
LightRelease ==
    /\ light.pc = "release"
    /\ \E raises \in BOOLEAN :
          light' = [light EXCEPT !.link = IF raises THEN @ ELSE "none",
                                 !.pc = "clear"]
    /\ UNCHANGED <<devices, state, cbd, sessions, scanning_devices, queue, shutdown,
                   waiting, done, nextId, wpc, command, tries, cands, device, wdev,
                   wres, ddev, spc, ppc, pwait, pidx, last_update_success, hist, obs,
                   shown, opc, codec>>

\* `self.session_key = None` (lines 566, 575) and the return, into connect
\* (lines 271-272) when connect made the call
LightKeyCleared ==
    /\ light.pc = "clear"
    /\ light' = [light EXCEPT !.session_key = <<>>,
                              !.result = IF light.caller = "connect" THEN "False"
                                         ELSE "None",
                              !.pc = "idle", !.caller = "none"]
    /\ UNCHANGED <<devices, state, cbd, sessions, scanning_devices, queue, shutdown,
                   waiting, done, nextId, wpc, command, tries, cands, device, wdev,
                   wres, ddev, spc, ppc, pwait, pidx, last_update_success, hist, obs,
                   shown, opc, codec>>

\* writeCommand up to the write (lines 379-388); without a key the assert fails
LightWrite ==
    /\ Callable
    /\ light' = IF light.session_key = <<>>
                THEN [light EXCEPT !.result = "raised", !.reply = <<>>,
                                   !.calls = @ + 1]
                ELSE [light EXCEPT !.pc = "write", !.caller = "writeCommand",
                                   !.reply = <<>>, !.calls = @ + 1]
    /\ UNCHANGED <<devices, state, cbd, sessions, scanning_devices, queue, shutdown,
                   waiting, done, nextId, wpc, command, tries, cands, device, wdev,
                   wres, ddev, spc, ppc, pwait, pidx, last_update_success, hist, obs,
                   shown, opc, codec>>

\* command_char.write returns or raises (lines 388-398)
LightWritten ==
    /\ light.pc = "write"
    /\ \E o \in WriteOutcomes :
          LET l == [light EXCEPT !.pc = "idle", !.caller = "none", !.data = <<>>,
                                 !.handled = "none"]
          IN  light' =
                 IF light.link = "none"
                 THEN [l EXCEPT !.session_key = <<>>, !.result = "None"]
                 ELSE CASE o = "ack" -> [l EXCEPT !.result = "ok"]
                        [] o = "none" -> [l EXCEPT !.result = "None"]
                        [] o = "disconnected" ->
                              [l EXCEPT !.session_key = <<>>, !.link = "none",
                                        !.result = "raised"]
                        [] OTHER -> [l EXCEPT !.result = "raised"]
    /\ UNCHANGED <<devices, state, cbd, sessions, scanning_devices, queue, shutdown,
                   waiting, done, nextId, wpc, command, tries, cands, device, wdev,
                   wres, ddev, spc, ppc, pwait, pidx, last_update_success, hist, obs,
                   shown, opc, codec>>

\* ------------------------------------------------------ notifications
\* What a mesh device sends: the 20 bytes whose decryption decrypt_packet checks
\* (packetutils lines 93-110), for a message of command `kind` about mesh id d
\* with mode byte `mode`, laid out as parseStatusResult reads it (lines 411-435).
StatusHead(kind, d) ==
    IF kind = C_GET_STATUS_RECEIVED THEN <<1, 2, 3, d % 256, d \div 256>>
    ELSE <<1, 2, 3, 0, 0>>

StatusPayload(kind, d, mode) ==
    IF kind = C_NOTIFICATION_RECEIVED
    THEN <<kind, 0, 0, d % 256, 0, mode, 10, 20, 30, 40, 50, 60, d \div 256>>
    ELSE <<kind, 0, 0, mode, 10, 20, 30, 40, 50, 60, 0, 0, 0>>

Notification(key, address, kind, d, mode, intact) ==
    LET head == StatusHead(kind, d)
        payload == StatusPayload(kind, d, mode)
        nonce == Slice(Reversed(address), 0, 3) \o head
        check == Slice(make_checksum(key, nonce, payload), 0, 2)
    IN  head \o (IF intact THEN check ELSE <<(check[1] + 1) % 256, check[2]>>)
             \o crypt_payload(key, nonce, payload)

\* a key no session of this light has
StrangerKey == [i \in 1..BLOCK |-> (7 * i + 200) % 256] \o <<>>

\* the notifications a light may be handed: encrypted under its key, of either
\* status command or another command, about its own mesh id, another registered
\* one or one nobody registered, the light on or off, intact or damaged; and
\* statuses encrypted under a key that is not the light's
Notifications(l) ==
    (IF l.session_key = <<>> THEN {}
     ELSE {Notification(l.session_key, l.mac, kind, d, d % 2, intact) :
              kind \in FrameKinds, d \in MeshIds \cup {UnknownMeshId},
              intact \in BOOLEAN})
    \cup {Notification(StrangerKey, l.mac, kind, l.mesh_id, 1, TRUE) :
              kind \in {C_GET_STATUS_RECEIVED, C_NOTIFICATION_RECEIVED}}

\* parseStatusResult on the decrypted message up to line 453 (the light's values
\* but `state` are left out)
parseStatusMessage(data) ==
    LET kind == Byte(data, 7)
    IN  CASE kind = C_GET_STATUS_RECEIVED ->
                 [mesh_id |-> Byte(data, 4) * 256 + Byte(data, 3),
                  state |-> (Byte(data, 10) % 2) = 1]
          [] kind = C_NOTIFICATION_RECEIVED ->
                 [mesh_id |-> Byte(data, 19) * 256 + Byte(data, 10),
                  state |-> (Byte(data, 12) % 2) = 1]
          [] OTHER -> <<>>

\* variant of handleNotification: a status of another mesh id is dropped
handleOwnNotification(l, data) ==
    IF l.session_key = <<>>
    THEN [handled |-> "no_key", status |-> <<>>]
    ELSE LET message == decrypt_packet(l.session_key, l.mac, data)
         IN  IF message.none
             THEN [handled |-> "no_message", status |-> <<>>]
             ELSE LET status == parseStatusMessage(message.packet)
                  IN  IF DOMAIN status = {} THEN [handled |-> "unknown", status |-> <<>>]
                      ELSE IF status.mesh_id # l.mesh_id
                      THEN [handled |-> "unknown", status |-> <<>>]
                      ELSE [handled |-> "status", status |-> status]

\* Delegate.handleNotification (lines 191-206) and parseStatusResult up to line
\* 453: what became of the notification and the status dict made of it
handleNotification(l, data) ==
    IF l.session_key = <<>>
    THEN [handled |-> "no_key", status |-> <<>>]
    ELSE LET message == decrypt_packet(l.session_key, l.mac, data)
         IN  IF message.none
             THEN [handled |-> "no_message", status |-> <<>>]
             ELSE LET status == parseStatusMessage(message.packet)
                  IN  IF DOMAIN status = {} THEN [handled |-> "unknown", status |-> <<>>]
                      ELSE [handled |-> "status", status |-> status]

\* a notification arrives while a call waits on the transport (_getResp, lines
\* 130-135): handleNotification, then lines 455-468; what the scheduler's
\* callback raises leaves the call that was waiting
LightNotified ==
    /\ light.pc \in {"pair", "write"}
    /\ light.link = "open"
    /\ light.notified < MaxNotifications
    /\ \E data \in Notifications(light) :
          LET h == handleNotification(light, data)
              called == h.handled = "status" /\ light.status_callback
              r == IF called THEN mesh_status_callback(devices, h.status)
                   ELSE [devs |-> devices, forwarded |-> 0, raised |-> FALSE]
              own == h.handled = "status" /\ h.status.mesh_id = light.mesh_id
              l == [light EXCEPT
                       !.data = data,
                       !.handled = IF called THEN "delivered" ELSE h.handled,
                       !.state = IF own THEN (IF h.status.state THEN "on" ELSE "off")
                                 ELSE @,
                       !.delivered = IF called THEN @ + 1 ELSE @,
                       !.last = IF called THEN h.status.mesh_id ELSE @,
                       !.notified = @ + 1]
          IN  /\ devices' = r.devs
              /\ light' = IF r.raised
                          THEN [l EXCEPT !.result = "raised", !.pc = "idle",
                                         !.caller = "none"]
                          ELSE l
    /\ UNCHANGED <<state, cbd, sessions, scanning_devices, queue, shutdown,
                   waiting, done, nextId, wpc, command, tries, cands, device, wdev,
                   wres, ddev, spc, ppc, pwait, pidx, last_update_success, hist, obs,
                   shown, opc, codec>>

InitSession ==
    /\ InitWith({Registered([i \in 1..NumDevices |-> i])})
    /\ codec = NoPacket
    /\ light \in {NewLight(mac, 1) : mac \in Addresses}

NextSession ==
    \/ LightConnect
    \/ LightPaired
    \/ LightPairFailed
    \/ LightSetCallback
    \/ LightDisconnect
    \/ LightRelease
    \/ LightKeyCleared
    \/ LightWrite
    \/ LightWritten
    \/ LightNotified

SessionSpec == InitSession /\ [][NextSession]_vars

\* ---------------------------------------------------------- scheduling
\* The worker thread keeps running (its blocking calls are bounded: the 20 s
\* timeout of the connect, the 10 s fallback of a write), and the event loop
\* resumes a coroutine whose await is over. Nothing makes a host submit a
\* command, shut down or start a poll cycle.
PollResumed ==
    \/ PollDisconnected
    \/ PollDisconnectTimeout
    \/ PollScanned
    \/ PollScanFailed
    \/ PollBroadcastDone
    \/ PollBroadcastTimeout
    \/ PollSlept
    \/ PollDirectedDone
    \/ PollDirectedTimeout
    \/ PollDirectedSlept

FairSpec ==
    /\ Spec
    /\ WF_vars(Worker)
    /\ WF_vars(ShutdownDisconnected)
    /\ WF_vars(PollResumed)

\* ------------------------------------------------- the mesh reports status
\* The poll cycles and the worker serving them, with the mesh delivering status
\* frames and time passing; no host command, no shutdown.
NextStatus ==
    \/ Worker
    \/ Poll
    \/ ConnectionAges
    \/ StatusFrame
    \/ TimePasses

StatusSpec == Init /\ [][NextStatus]_vars

\* ------------------------------------------------------ overlapping scans
\* The poll cycle and the worker serving it, with overlapping refreshes calling
\* for a scan; no host command, no shutdown.
NextScan ==
    \/ Worker
    \/ Poll
    \/ ConnectionAges
    \/ OtherScanCall
    \/ OtherScanned
    \/ OtherScanFailed
    \/ OtherRefreshOver

ScanSpec == Init /\ [][NextScan]_vars

\* ------------------------------------------------ registration under way
\* The scheduler from its construction on, the directory empty: the entities
\* register their devices (light.py line 99, switch.py line 75) while host
\* commands, the worker, refreshes calling for a scan and shutdown are under way.
Register ==
    \E d \in MeshIds :
        /\ devices' = register_device(devices, d)
        /\ cands' = [k \in 1..Len(cands) |->
                        IF cands[k].mesh_id = d /\ ~IsDetached(cands[k])
                        THEN Detached(devices[DeviceIndex(d)])
                        ELSE cands[k]] \o <<>>
        /\ UNCHANGED <<state, cbd, sessions, scanning_devices, queue, shutdown,
                       waiting, done, nextId, wpc, command, tries, device, wdev,
                       wres, ddev, spc, ppc, pwait, pidx, last_update_success,
                       hist, obs, codec, light, shown, opc>>

InitRegister ==
    /\ InitWith({<<>>})
    /\ codec = NoPacket
    /\ light = NoLight

NextRegister ==
    \/ Register
    \/ Submit
    \/ \E i \in CmdIds : SubmitReturn(i)
    \/ Worker
    \/ Shutdown
    \/ ShutdownDisconnected
    \/ OtherScanCall
    \/ OtherScanned
    \/ OtherScanFailed
    \/ OtherRefreshOver

RegisterSpec == InitRegister /\ [][NextRegister]_vars

\* ------------------------------------------- candidate ranking on its own
\* One connect call over every directory the program can hold: any registration
\* order, any signal strengths a scan has left behind, and a scan that completes
\* while the call is under way.
RankRssi == {0 - 40, 0 - 90, RSSI_NO_VALUE, RSSI_UNKNOWN}

Orders == {o \in [1..NumDevices -> MeshIds] :
              \A i, j \in 1..NumDevices : i # j => o[i] # o[j]}

RankDirs ==
    {[i \in 1..NumDevices |-> [Registered(o)[i] EXCEPT !.rssi = f[i], !.mac = m[i]]] :
        o \in Orders, f \in [1..NumDevices -> RankRssi],
        m \in [1..NumDevices -> BOOLEAN]}

InitRank == InitWith(RankDirs) /\ codec = NoPacket /\ light = NoLight

RankScanned == Scanned(RankRssi)

NextRank ==
    \/ Submit
    \/ WorkerLoop
    \/ WorkerGet
    \/ WorkerCall
    \/ ConnectOk
    \/ ConnectFailed
    \/ PollStart
    \/ RankScanned

RankSpec == InitRank /\ [][NextRank]_vars

\* ---------------------------------------------------------------- claims
\* the worker has a command in hand (from the dequeue to the end of its turn)
InHand == command.id # 0

FailedOutcomes == {"exhausted", "exception"}

\* C1: commands are dispatched in the order they were enqueued (ids count the
\* enqueues): the queue holds the ids after the last dequeued one, in order; the
\* command in hand, the only one attempts are made for, is the last dequeued
\* one; and every earlier command a host call still waits for has had its
\* callback, so all its attempts lie before the first attempt of this one.
C1_FifoDispatch ==
    /\ \A k \in 1..Len(queue) : queue[k].id = hist.nDequeued + k
    /\ nextId = hist.nDequeued + Len(queue) + 1
    /\ InHand => command.id = hist.nDequeued
    /\ hist.attempts > 0 => InHand
    /\ \A i \in waiting : (InHand /\ i < command.id) => i \in done

\* the first command is in a retry while the second waits in the queue
C1_Witness ==
    /\ wpc = "connecting"
    /\ command.id = 1
    /\ hist.attempts > 1
    /\ Len(queue) = 1

\* C2: at most one transport connection to a mesh member is open at a time.
C2_AtMostOneConnection == Cardinality(OpenLinks) <= 1

C4_AttemptedOnce == (InHand /\ command.allow_to_fail) => hist.attempts <= 1

\* C5: the submit call of a command that ran out of retries ends with a failure
\* outcome, not with what the call of a delivered command ends with.
C5_FailureReported ==
    \A i \in (waiting \cap done) \cap hist.exhausted : SubmitResult(i) # "None"

\* C6: once a command has run out of retries or its processing has raised, the
\* scheduler holds no session (no connected device, not connected; the device
\* name in the published state is gone too, unless a disconnect begun by the
\* poll cycle or by shutdown has yet to finish), the worker does not stop on
\* that account (it leaves the loop only when shutdown was requested) and its
\* next step takes the head of the queue and processes it.
C6_WorkerSurvivesFailure ==
    [][/\ (wpc \in {"callback", "loop"} /\ hist.outcome \in FailedOutcomes)
            => /\ cbd = 0
               /\ ~is_connected
               /\ ddev["worker"] = 0
               /\ \/ state.connected_device = 0
                  \/ ddev["poll"] # 0
                  \/ ddev["shutdown"] # 0
       /\ (wpc = "loop" /\ hist.outcome \in FailedOutcomes /\ wpc' # wpc)
            => (IF shutdown THEN wpc' = "exited" ELSE wpc' = "get")
       /\ (wpc = "get" /\ wpc' # wpc)
            => (queue # <<>> /\ command' = Head(queue) /\ wpc' = "call")
       /\ (wpc' = "exited" /\ wpc # "exited") => shutdown]_vars

\* a command ran out of retries with another one queued behind it, and the
\* worker is about to take its next turn
C6_Witness ==
    /\ wpc = "loop"
    /\ hist.outcome = "exhausted"
    /\ ~shutdown
    /\ queue # <<>>

\* C7: a submit call returns only when the worker is through with its own
\* command: a completion cell is set only for a command the worker has finished,
\* a call leaves its wait only with its cell set and its command finished, and
\* the queue keeps the commands in submission order.
C7_ReleasedByOwnCommand ==
    [][/\ \A i \in done : i \in hist.finished
       /\ \A i \in waiting \ waiting' : i \in done /\ i \in hist.finished
       /\ \A j, k \in 1..Len(queue') : j < k => queue'[j].id < queue'[k].id]_vars

\* a later call still waits, its command queued, while an earlier command has
\* completed
C7_Witness ==
    /\ wpc = "loop"
    /\ hist.callbacks = 1
    /\ \E i \in waiting : /\ i # command.id
                          /\ i \notin done
                          /\ \E k \in 1..Len(queue) : queue[k].id = i

\* C8: no submit call is left waiting for good: when the worker has stopped,
\* every call still suspended has its completion cell set.
C8_NoCallerLeftBehind == wpc = "exited" => \A i \in waiting : i \in done

\* C9: a command is dequeued at most once (it is neither queued again nor taken
\* again), its callback runs exactly once and after its last attempt, however
\* the processing ended.
C9_CompletedOnce ==
    /\ \A k \in 1..Len(queue) : queue[k].id > hist.nDequeued
    /\ hist.callbacks <= 1
    /\ hist.callbacks = 1 => (wpc = "loop" /\ InHand)
    /\ (wpc = "loop" /\ InHand) =>
          /\ hist.callbacks = 1
          /\ hist.outcome \in {"ok", "exhausted", "exception"}
          /\ Awaited(command.id) => command.id \in done
    /\ (wpc = "callback") => hist.outcome \in {"ok", "exhausted", "exception"}
    /\ \A i \in done : i < command.id \/ (i = command.id /\ wpc = "loop")
                         \/ (~InHand /\ i <= hist.nDequeued)

\* the callback has run for a command whose processing raised
C9_Witness ==
    /\ wpc = "loop"
    /\ hist.outcome = "exception"
    /\ hist.callbacks = 1
    /\ command.id \in done

\* C10: within one connect call the candidates are tried in non-increasing order
\* of the rssi they were ranked by, and candidates of equal rssi in the order of
\* their registration.
C10_RankedByRssi ==
    \A j, k \in 1..Len(hist.tried) :
        j < k => \/ hist.tried[j].rssi > hist.tried[k].rssi
                 \/ /\ hist.tried[j].rssi = hist.tried[k].rssi
                    /\ DeviceIndex(hist.tried[j].mesh_id)
                         < DeviceIndex(hist.tried[k].mesh_id)

\* two candidates of equal rssi have been tried, the higher mesh id registered
\* first
C10_Witness ==
    /\ Len(hist.tried) >= 2
    /\ hist.tried[1].rssi = hist.tried[2].rssi
    /\ hist.tried[1].mesh_id > hist.tried[2].mesh_id

C12_StaleDeviceTold ==
    [][(ppc = "sleep_directed" /\ ppc' # "sleep_directed") =>
          LET d == devices[pidx].mesh_id
          IN  IF obs.heard[d] = "old90"
              THEN /\ obs'.nulls[d] = obs.nulls[d] + 1
                   /\ devices'[pidx].update_count = 0
                   /\ devices'[pidx].last_update = "none"
              ELSE obs'.nulls[d] = obs.nulls[d]]_vars

C14_ShutdownEnds == shutdown ~> (wpc = "exited" /\ cbd = 0 /\ OpenLinks = {})

\* C15: only the worker ever calls a method of a session: neither the poll
\* cycle nor shutdown is ever inside device.disconnect.
C15_OnlyWorkerCallsSession == ddev["poll"] = 0 /\ ddev["shutdown"] = 0

\* C16: a session has its key exactly when its transport is connected and
\* paired, and when a write ends in a transport error (it raised, or it returned
\* None after the timeout or a helper failure) the session's key is gone.
C16_KeyFollowsTransport ==
    [][/\ \A s \in SessIds : sessions'[s].key <=> sessions'[s].link = "open"
       /\ (wpc = "write" /\ wpc' = "post" /\ wres' \in {"failed", "none"}) =>
              ~sessions'[wdev].key]_vars

Built == codec.stage \in {"built", "decrypted"}

\* where the payload of a decrypted packet starts: after the 3 sequence and 2
\* check bytes of a command, or after the 7 bytes decrypt_packet leaves alone
Recovered(dec, payload) ==
    \E off \in {5, 7} : Slice(dec, off, off + Len(payload)) = payload

C18_TwentyBytes ==
    (Built /\ Len(codec.data) <= 11) => Len(codec.packet) = 20

\* C18 as it holds: for data of at most 10 bytes the packet has exactly 20
\* bytes, 3 sequence bytes, 2 check bytes and the 15 bytes of the encrypted
\* payload; each byte of data beyond 10 makes it one byte longer.
C18_TwentyBytesUpToTen ==
    Built =>
        LET nonce == CommandNonce(codec.address, codec.s)
            payload == CommandPayload(codec.dest_id, codec.command, codec.data)
        IN  IF Len(codec.data) <= PAYLOAD_LEN - 5
            THEN /\ Len(codec.packet) = 20
                 /\ Len(payload) = PAYLOAD_LEN
                 /\ SubSeq(codec.packet, 1, 3) = codec.s
                 /\ SubSeq(codec.packet, 4, 5)
                        = SubSeq(make_checksum(codec.key, nonce, payload), 1, 2)
                 /\ SubSeq(codec.packet, 6, 20)
                        = crypt_payload(codec.key, nonce, payload)
            ELSE Len(codec.packet) = 10 + Len(codec.data)

\* a packet with the longest data that fits was built
C18_Witness ==
    /\ Built
    /\ Len(codec.data) = PAYLOAD_LEN - 5
    /\ Len(codec.packet) = 20

\* C19: once the worker thread has ended, nothing is enqueued any more: a submit
\* call is turned down at once and has no caller wait, and a poll cycle that
\* starts ends at once as a failed one.
C19_DeadWorkerRefuses ==
    [][wpc = "exited" =>
          /\ queue' = queue
          /\ nextId' = nextId
          /\ waiting' \subseteq waiting
          /\ pwait' \in {pwait, 0}
          /\ ppc = "idle" =>
                (ppc' = "idle" /\ (last_update_success' => last_update_success))
          /\ (obs'.died /\ ~obs.died) => (ppc' = "idle" /\ ~last_update_success')]_vars

\* the worker has ended; a submit call was turned down and a poll cycle failed
\* at its first check
C19_Witness ==
    /\ wpc = "exited"
    /\ obs.refused
    /\ obs.died
    /\ ~last_update_success
    /\ queue = <<>>

\* C20: when the mesh delivers a status frame (0xDB or 0xDC) of a registered
\* device, that device's callback is called with the status, its last_update is
\* the current time and its update_count is one more than before.
C20_StatusRecorded ==
    [][\A d \in MeshIds :
          (obs'.heard[d] = "fresh" /\ obs.heard[d] # "fresh") =>
             /\ obs'.forwarded[d] = obs.forwarded[d] + 1
             /\ devices'[DeviceIndex(d)].last_update = "fresh"
             /\ devices'[DeviceIndex(d)].update_count =
                    devices[DeviceIndex(d)].update_count + 1]_vars

\* C21: a connect call made while a session is authenticated tries no candidate
\* and leaves the active session, every session object, last_connection, the
\* connected device's name and last_rssi_check as they were.
C21_ConnectedIsNoOp ==
    [][(wpc = "call" /\ wpc' # "call" /\ is_connected) =>
          /\ wpc' = "check"
          /\ cbd' = cbd
          /\ sessions' = sessions
          /\ state' = state
          /\ device' = 0
          /\ hist'.tried = <<>>]_vars

\* a connect call returned at once, the session having been made for a command
\* before
C21_Witness ==
    /\ wpc = "check"
    /\ hist.skipped
    /\ hist.nDequeued > 1
    /\ is_connected

\* C22: when a candidate's connect succeeds, that candidate is the active session,
\* last_connection is stamped, the listeners are called and read the new connected
\* device, the loop over the candidates ends, the status callback is set on that
\* session and is_connected() holds.
C22_ConnectSuccess ==
    [][(wpc = "connecting" /\ sessions'[device].key) =>
          /\ cbd' = device
          /\ state'.last_connection = "fresh"
          /\ state'.connected_device = sessions[device].dev
          /\ shown' = sessions[device].dev
          /\ wpc' = "check"
          /\ cands' = <<>>
          /\ \A s \in SessIds : sessions'[s].link # "opening"
          /\ sessions'[device].status_callback
          /\ is_connected']_vars

C22_Witness ==
    /\ wpc = "check"
    /\ ~hist.skipped
    /\ is_connected
    /\ state.last_connection = "fresh"
    /\ shown = sessions[cbd].dev
    /\ sessions[cbd].status_callback
    /\ \E i \in 1..Len(devices) : devices[i].mesh_id # shown /\ devices[i].rssi > RSSI_FLOOR

\* the candidates tried so far by the connect call in progress are all different
TriedOnce(tried) ==
    \A i, j \in 1..Len(tried) : i # j => tried[i].mesh_id # tried[j].mesh_id

\* C23: when a candidate's connect fails, its transport is released, the next
\* candidate of the ranking that is reachable is attempted if there is one (the
\* loop goes on), and no candidate is attempted twice in one connect call.
C23_FailedCandidateReleased ==
    [][(wpc = "connecting" /\ hist'.tried # hist.tried /\ cbd' = cbd) =>
          LET rest == SkipUnconnectable(cands)
          IN  /\ \A s \in SessIds \ {device'} :
                    sessions'[s].link # "none" =>
                        s # device /\ sessions'[s].link = sessions[s].link
              /\ IF rest # <<>>
                 THEN /\ wpc' = "connecting"
                      /\ device' # 0
                      /\ sessions'[device'].link = "opening"
                      /\ sessions'[device'].dev = Head(rest).mesh_id
                      /\ hist'.tried = Append(hist.tried, Head(rest))
                 ELSE wpc' = "check" /\ device' = 0
              /\ TriedOnce(hist'.tried)]_vars

C23_Witness ==
    /\ wpc = "connecting"
    /\ Len(hist.tried) = 2
    /\ sessions[device].dev = hist.tried[2].mesh_id
    /\ \A s \in SessIds : sessions[s].dev = hist.tried[1].mesh_id =>
                              sessions[s].link = "none"

\* a connect call ends in this step with every candidate tried or passed over
Exhausts ==
    \/ wpc = "call" /\ ~is_connected /\ wpc' = "check"
    \/ wpc = "connecting" /\ wpc' = "check" /\ cbd' = cbd

\* a poll cycle passes the test of line 120 in this step
PassesRssiCheck ==
    \/ ppc = "idle" /\ ppc' \notin {"idle", "disconnect"}
    \/ ppc = "disconnect" /\ ppc' # "disconnect"

\* C24: a connect call that exhausts its candidates clears last_rssi_check; a poll
\* cycle that finds last_rssi_check cleared runs a scan before its status request;
\* a poll cycle that finds it set runs no scan.
C24_ExhaustionForcesScan ==
    [][/\ Exhausts => state'.last_rssi_check = "none"
       /\ (PassesRssiCheck /\ state.last_rssi_check = "none") => ppc' = "scan"
       /\ (PassesRssiCheck /\ state.last_rssi_check # "none") => ppc' # "scan"]_vars

\* C25: no two scans are in progress together; a call of _async_get_devices_rssi
\* made while the scan flag is set, by an overlapping refresh or by the poll cycle,
\* starts no scan and leaves every rssi and last_rssi_check as they were.
C25_OneScanAtATime ==
    [][/\ ~(ppc' = "scan" /\ opc' = "scan")
       /\ (opc = "idle" /\ opc' # "idle" /\ scanning_devices) =>
              /\ opc' = "returned"
              /\ devices' = devices
              /\ state' = state
       /\ (PassesRssiCheck /\ state.last_rssi_check = "none" /\ scanning_devices) =>
              /\ ppc' # "scan"
              /\ \A i \in 1..Len(devices) : devices'[i].rssi = devices[i].rssi
              /\ state'.last_rssi_check = "none"]_vars

C25_Witness ==
    /\ opc = "returned"
    /\ ppc = "scan"
    /\ scanning_devices

C27_PollAllowedToFail ==
    /\ \A i \in 1..Len(queue) : queue[i].id = pwait => queue[i].allow_to_fail
    /\ (command.id # 0 /\ command.id = pwait) => command.allow_to_fail

\* the device loop is at, or goes on from, its entry `from` in this step
LoopFrom ==
    CASE ppc = "sleep" -> 1
      [] ppc = "sleep_directed" -> pidx + 1
      [] OTHER -> 0

\* C28: in the device loop of a connected cycle, one directed request is enqueued
\* for the next entry whose last_update is None or older than 60 s, its
\* status_request_count goes up by one, the entries passed over are those heard from
\* within the minute, and the cycle ends only when every entry that needed a
\* request has had one.
C28_OneRequestPerStaleEntry ==
    [][/\ (LoopFrom # 0 /\ ppc' = "wait_directed") =>
              /\ NeedsStatusRequest(devices[pidx'])
              /\ \A k \in LoopFrom..(pidx' - 1) : ~NeedsStatusRequest(devices'[k])
              /\ queue' = Append(queue, [id |-> pwait', allow_to_fail |-> TRUE])
              /\ \A k \in 1..Len(devices) :
                    devices'[k].status_request_count =
                        devices[k].status_request_count + (IF k = pidx' THEN 1 ELSE 0)
       /\ (LoopFrom # 0 /\ ppc' = "idle" /\ is_alive) =>
              \A k \in LoopFrom..Len(devices) : ~NeedsStatusRequest(devices'[k])
       /\ (ppc = "wait_directed" /\ ppc' = "idle") =>
              \A k \in (pidx + 1)..Len(devices) : ~NeedsStatusRequest(devices'[k])]_vars

\* C29: when the wait for a directed request is over, whether the request was
\* completed, failed or the wait timed out, the cycle goes on with the staleness
\* check of that entry and the rest of the directory.
C29_DirectedBestEffort ==
    [][(ppc = "wait_directed" /\ ppc' # "wait_directed") =>
          /\ ppc' = "sleep_directed"
          /\ pidx' = pidx]_vars

C31_ConnectResult ==
    [][/\ (light.pc = "pair" /\ light'.reply # <<>>) =>
              IF light'.reply[1] = PAIR_OK
              THEN /\ light'.result = "True"
                   /\ light'.pc = "idle"
                   /\ light'.link = "open"
                   /\ light'.session_key # <<>>
                   /\ light'.session_key =
                          make_session_key(MeshName, MeshPassword,
                                           light.session_random,
                                           Slice(light'.reply, 1, 9))
              ELSE /\ light'.pc = "release"
                   /\ light'.caller = "connect"
                   /\ light'.session_key = <<>>
       /\ (light.caller = "connect" /\ light.pc = "release") =>
              (light'.pc = "clear" /\ light'.caller = "connect")
       /\ (light.caller = "connect" /\ light.pc = "clear") =>
              /\ light'.pc = "idle"
              /\ light'.result = "False"
              /\ light'.session_key = <<>>
       /\ (light.caller = "connect" /\ light'.result = "True"
             /\ light'.caller = "none") => light'.reply[1] = PAIR_OK]_vars

\* connect has returned False after the device rejected the pairing
C31_Witness ==
    /\ light.pc = "idle"
    /\ light.result = "False"
    /\ light.reply # <<>>
    /\ light.reply[1] = PAIR_REJECTED
    /\ light.session_key = <<>>
    /\ light.link = "none"

\* a step of disconnect or stop, whoever called it
InDisconnect == light.pc \in {"release", "clear"}

\* C32: in no state is the transport released while the session key is still
\* present (disconnect clears the key before it releases the transport);
\* disconnect and stop run to their end without raising, whatever the release
\* did; and on a session without transport and key they change nothing.
C32_KeyClearedFirst ==
    [][/\ light'.link = "none" => light'.session_key = <<>>
       /\ InDisconnect =>
              /\ light'.pc = (IF light.pc = "release" THEN "clear" ELSE "idle")
              /\ light'.result = IF light'.pc # "idle" THEN light.result
                                 ELSE IF light.caller = "connect" THEN "False"
                                 ELSE "None"
              /\ light'.pc = "idle" => light'.session_key = <<>>
       /\ (InDisconnect /\ light.link = "none" /\ light.session_key = <<>>) =>
              /\ light'.link = "none"
              /\ light'.session_key = <<>>
              /\ light'.state = light.state
              /\ light'.status_callback = light.status_callback
              /\ devices' = devices]_vars

\* a notification is handled in this step
Notified == light'.notified = light.notified + 1

StatusKinds == {C_GET_STATUS_RECEIVED, C_NOTIFICATION_RECEIVED}

\* C33: a status (0xDB or 0xDC) a device sends under the session's key, about the
\* session's own mesh id, another registered one or an unregistered one, is handed
\* to the status callback set on the session, once and with the mesh id it carries.
C33_StatusDelivered ==
    [][(Notified /\ light.session_key # <<>> /\ light.status_callback) =>
          \A kind \in StatusKinds, d \in MeshIds \cup {UnknownMeshId} :
             light'.data = Notification(light.session_key, light.mac, kind, d,
                                        d % 2, TRUE)
                => /\ light'.delivered = light.delivered + 1
                   /\ light'.last = d
                   /\ light'.handled = "delivered"]_vars

\* a status about a mesh id that is not the session's own was handed to the
\* callback, the session's own status fields left as they were
C33_Witness ==
    /\ light.handled = "delivered"
    /\ light.delivered = 1
    /\ light.last # light.mesh_id
    /\ light.state = "None"

\* the session's fields and the directory are the same after this step
LightUntouched ==
    /\ light'.link = light.link
    /\ light'.session_key = light.session_key
    /\ light'.state = light.state
    /\ light'.status_callback = light.status_callback
    /\ devices' = devices

\* C34: a notification handled without a session key, one whose check bytes do not
\* match (damaged, or encrypted under another key) and one of a command other than
\* 0xDB and 0xDC lead to no status callback, the call that was waiting on the
\* transport goes on waiting (nothing is raised into it), and the session's link,
\* key and status fields and the device directory stay as they were.
C34_UndecodableIgnored ==
    [][Notified =>
          LET quiet == /\ light'.delivered = light.delivered
                       /\ light'.handled \in {"no_key", "no_message", "unknown"}
                       /\ light'.pc = light.pc
                       /\ light'.result = light.result
                       /\ LightUntouched
          IN  /\ light.session_key = <<>> => quiet
              /\ light.session_key # <<>> =>
                    /\ \A kind \in FrameKinds, d \in MeshIds \cup {UnknownMeshId},
                          intact \in BOOLEAN :
                          (/\ light'.data = Notification(light.session_key, light.mac,
                                                         kind, d, d % 2, intact)
                           /\ (~intact \/ kind \notin StatusKinds)) => quiet
                    /\ \A kind \in StatusKinds :
                          light'.data = Notification(StrangerKey, light.mac, kind,
                                                     light.mesh_id, 1, TRUE)
                             => quiet]_vars

\* a damaged notification was dropped on an authenticated session with a callback
\* set, the write in progress still waiting
C34_Witness ==
    /\ light.pc = "write"
    /\ light.handled = "no_message"
    /\ light.session_key # <<>>
    /\ light.status_callback
    /\ light.delivered = 0

\* C35: from the worker's connected-check of a command (line 286) to the end of
\* that command's write, the session the check saw stays the active one and keeps
\* its transport and its key: the command is written on an authenticated session.
C35_WriteOnAuthenticated ==
    /\ wpc = "send" => is_connected
    /\ wpc = "write" => /\ cbd = wdev
                        /\ sessions[wdev].link = "open"
                        /\ sessions[wdev].key

\* C36: in every state, whatever the interleaving of the status callback (run in
\* the worker thread) with the sweeps of the poll cycle, a directory entry with
\* last_update None has update_count 0.
C36_NoCountWithoutUpdate ==
    \A i \in 1..Len(devices) :
        devices[i].last_update = "none" => devices[i].update_count = 0

\* a status of the first device has been handed to the status callback during the
\* write of its directed request, and the poll cycle is at that entry's staleness
\* check
C36_Witness ==
    /\ ppc = "sleep_directed"
    /\ pidx = 1
    /\ obs.heard[devices[1].mesh_id] # "none"
    /\ devices[1].last_update = "none"
    /\ devices[1].update_count = 0

\* C37: a callback with {'state': None} is made for a device only when its entry
\* has a last_update, once, and leaves the entry without one; an entry gets a
\* last_update only from a status handed to the device. So no device gets two
\* such callbacks with no status in between, whichever sweep makes them, and a
\* device no status was ever recorded for gets none.
C37_AtMostOneUnavailable ==
    [][\A d \in MeshIds :
          LET i == DeviceIndex(d)
          IN  /\ obs'.nulls[d] # obs.nulls[d] =>
                    /\ obs'.nulls[d] = obs.nulls[d] + 1
                    /\ devices[i].last_update # "none"
                    /\ devices'[i].last_update = "none"
              /\ (devices[i].last_update = "none"
                    /\ devices'[i].last_update # "none") =>
                        obs'.forwarded[d] = obs.forwarded[d] + 1
              /\ obs.forwarded[d] = 0 => obs'.nulls[d] = 0]_vars

\* the staleness check has passed over the first entry, whose device never
\* reported a status, and made no callback
C37_Witness ==
    /\ ppc = "cut"
    /\ pidx = 2
    /\ obs.heard[devices[1].mesh_id] = "none"
    /\ obs.forwarded[devices[1].mesh_id] = 0
    /\ obs.nulls[devices[1].mesh_id] = 0

\* the worker begins a connect to a candidate (line 333)
ConnectBegins == Len(hist'.tried) > Len(hist.tried)

\* C38: once async_shutdown has returned, the worker begins no connect to a
\* candidate and no session comes to be connected.
C38_NoConnectAfterShutdown ==
    [][spc = "done" =>
          /\ ~ConnectBegins
          /\ \A s \in SessIds :
                sessions'[s].link = "open" => sessions[s].link = "open"]_vars

\* C39: the scan flag is set only while a scan is in progress: when a scan has
\* ended, by its return, by an exception or by the 120 s timeout of the poll
\* cycle, the flag is clear again, so a cycle that finds last_rssi_check cleared
\* is not turned away at line 367.
C39_GuardReleased == scanning_devices => ppc = "scan"

\* C40: a connect is begun only to a device whose record holds an rssi measured
\* by a scan, so not to one registered, or registered again, since the last
\* scan; and a connect call made with no session held, while every record holds
\* the value register_device gives it, tries no device and leaves the scheduler
\* without a gateway for the command.
C40_NoCandidateBeforeScan ==
    [][/\ ConnectBegins => Rssi(sessions'[device'].dev) \in ScanRssi
       /\ (/\ wpc = "call"
           /\ wpc' # "call"
           /\ cbd = 0
           /\ \A i \in 1..Len(devices) : devices[i].rssi = RSSI_UNKNOWN) =>
              /\ ~ConnectBegins
              /\ wpc' = "check"
              /\ cbd' = 0]_vars

====
